---------------------------- MODULE Spec2Model ----------------------------
(***************************************************************************)
(* Handoff analytics (src/analytics.py): the document parser, the two      *)
(* signal extractors, the aggregation fold, the renderers and main; and    *)
(* the configuration wizard (src/scripts/config_wizard.py).                *)
(*                                                                         *)
(* Text is a sequence of characters; a character is a one-element string   *)
(* ("a", " ", "\n"), or the code point's name for the three emoji markers  *)
(* ("U+2705" is the check mark, "U+2753" the question mark, and the        *)
(* warning sign is the two code points "U+26A0" "U+FE0F").                 *)
(***************************************************************************)
EXTENDS Integers, Sequences, FiniteSets, TLC

VARIABLES
    parser,      \* frame of parse_handoff: its locals and its position
    classifier,  \* frame of extract_confidence_levels
    extractor,   \* frame of extract_issues
    analysis,    \* frame of analyze_handoffs: handoffs, cursor, timestamps, data
    render,      \* the last renderer call: its name, output, return value
    disk,        \* the files written by the exports, or the wizard's
                 \* configuration files: path -> content
    corpus,      \* the resolved handoff directory (whether it exists, its
                 \* entries), the file system find_handoff_directory searches,
                 \* or the wizard's environment
    proc         \* main: its position, arguments, listing, output and exit
                 \* code; or the frame of find_handoff_directory and
                 \* list_handoffs; or the wizard's main and run_wizard

vars == <<parser, classifier, extractor, analysis, render, disk, corpus, proc>>

(***************************************************************************)
(* Bounds of the model.                                                    *)
(***************************************************************************)
MaxLines == 4

MaxFragments == 2

MaxIssueLines == 2

\* The most documents in a listing, and the latest modification time in
\* half days.
MaxDocs == 2

MaxHalfDays == 3

(***************************************************************************)
(* Python values and str methods.                                          *)
(***************************************************************************)
\* Python's None, where a variable holds either None or a text.
None == <<"<None>">>

\* A frame that is not running.
Idle == [pc |-> "idle"]

NL == "\n"

\* The characters str.strip() removes (the ASCII part of str.isspace()).
Whitespace == {" ", "\t", "\n", "\r", "\f"}

UpperLetters == <<"A", "B", "C", "D", "E", "F", "G", "H", "I", "J", "K", "L", "M",
                  "N", "O", "P", "Q", "R", "S", "T", "U", "V", "W", "X", "Y", "Z">>

LowerLetters == <<"a", "b", "c", "d", "e", "f", "g", "h", "i", "j", "k", "l", "m",
                  "n", "o", "p", "q", "r", "s", "t", "u", "v", "w", "x", "y", "z">>

SetMin(S) == CHOOSE x \in S : \A y \in S : x <= y

SetMax(S) == CHOOSE x \in S : \A y \in S : x >= y

\* Every sequence over S of length at most n.
SeqsUpTo(S, n) == UNION {[1..k -> S] : k \in 0..n}

\* bool(s) of a str-or-None: None and the empty string are falsy.
Truthy(s) == s # None /\ s # <<>>

\* s.startswith(p)
StartsWith(s, p) == Len(s) >= Len(p) /\ SubSeq(s, 1, Len(p)) = p

\* sub in s
Contains(s, sub) ==
    \E i \in 1..(Len(s) - Len(sub) + 1) : SubSeq(s, i, i + Len(sub) - 1) = sub

\* s[n:]
DropFirst(s, n) == SubSeq(s, n + 1, Len(s))

\* s[:n]
TakeFirst(s, n) == SubSeq(s, 1, IF n < Len(s) THEN n ELSE Len(s))

\* s.strip()
Strip(s) ==
    LET keep == {i \in 1..Len(s) : s[i] \notin Whitespace}
    IN  IF keep = {} THEN <<>> ELSE SubSeq(s, SetMin(keep), SetMax(keep))

LowerChar(c) ==
    IF \E i \in 1..Len(UpperLetters) : UpperLetters[i] = c
    THEN LowerLetters[CHOOSE i \in 1..Len(UpperLetters) : UpperLetters[i] = c]
    ELSE c

\* s.lower()
LowerStr(s) == [i \in 1..Len(s) |-> LowerChar(s[i])]

\* s.split(sep) for a one-character sep: always at least one piece.
Split(s, sep) ==
    LET cuts   == {i \in 1..Len(s) : s[i] = sep}
        NextCut(b) == SetMin({i \in cuts \cup {Len(s) + 1} : i >= b})
        Nth[n \in 1..(Cardinality(cuts) + 1)] ==
            IF n = 1 THEN 1 ELSE NextCut(Nth[n - 1]) + 1
    IN  [n \in 1..(Cardinality(cuts) + 1) |-> SubSeq(s, Nth[n], NextCut(Nth[n]) - 1)]

\* sep.join(parts) for a one-character sep.
RECURSIVE Join(_, _)
Join(parts, sep) ==
    IF parts = <<>> THEN <<>>
    ELSE IF Len(parts) = 1 THEN parts[1]
    ELSE parts[1] \o <<sep>> \o Join(Tail(parts), sep)

(***************************************************************************)
(* dict: insertion-ordered, a sequence of [k, v]; assigning to a key that  *)
(* is present replaces its value and keeps its place.                      *)
(***************************************************************************)
DictKeys(d) == {d[i].k : i \in 1..Len(d)}

DictHas(d, key) == key \in DictKeys(d)

DictGet(d, key) == d[CHOOSE i \in 1..Len(d) : d[i].k = key].v

\* d.get(key, default)
DictGetOr(d, key, default) == IF DictHas(d, key) THEN DictGet(d, key) ELSE default

\* d[key] = val
DictSet(d, key, val) ==
    IF DictHas(d, key)
    THEN [i \in 1..Len(d) |-> IF d[i].k = key THEN [k |-> key, v |-> val] ELSE d[i]]
    ELSE Append(d, [k |-> key, v |-> val])

(***************************************************************************)
(* parse_handoff: the split of a document into sections.                   *)
(***************************************************************************)
HeadingMarker == <<"#", "#", " ">>

\* line.startswith('## ')
IsHeadingLine(line) == StartsWith(line, HeadingMarker)

\* line[3:].strip()
HeadingText(line) == Strip(DropFirst(line, Len(HeadingMarker)))

\* Flush as it would be if a heading seen before kept its first body.
FlushKeepFirst(st) ==
    IF Truthy(st.current_section) /\ ~DictHas(st.sections, st.current_section)
    THEN DictSet(st.sections, st.current_section, Strip(Join(st.current_content, NL)))
    ELSE st.sections

\* sections[current_section] = '\n'.join(current_content).strip(), under
\* "if current_section:"
Flush(st) ==
    IF Truthy(st.current_section)
    THEN DictSet(st.sections, st.current_section, Strip(Join(st.current_content, NL)))
    ELSE st.sections

\* The locals before the loop.
ParseStart(content) ==
    [pc |-> "loop", content |-> content, lines |-> Split(content, NL), i |-> 1,
     current_section |-> None, current_content |-> <<>>, sections |-> <<>>]

\* One iteration of "for line in content.split('\n')".
ParseLine(st) ==
    LET line == st.lines[st.i]
    IN  IF IsHeadingLine(line)
        THEN [st EXCEPT !.sections = Flush(st),
                        !.current_section = HeadingText(line),
                        !.current_content = <<>>,
                        !.i = st.i + 1]
        ELSE [st EXCEPT !.current_content = Append(st.current_content, line),
                        !.i = st.i + 1]

\* After the loop: the last section is stored.
ParseFinish(st) == [st EXCEPT !.sections = Flush(st), !.pc = "done"]

RECURSIVE ParseLoop(_)
ParseLoop(st) == IF st.i > Len(st.lines) THEN st ELSE ParseLoop(ParseLine(st))

\* The sections mapping parse_handoff returns for a document text.
ParseSections(content) == ParseFinish(ParseLoop(ParseStart(content))).sections

(***************************************************************************)
(* extract_confidence_levels: one label per section.                       *)
(***************************************************************************)
CheckMark == <<"U+2705">>

QuestionMark == <<"U+2753">>

\* The literal in the source is the warning sign followed by the variation
\* selector: two code points.
WarningSign == <<"U+26A0", "U+FE0F">>

HighConfidence == <<"h", "i", "g", "h", " ", "c", "o", "n", "f", "i", "d", "e", "n", "c", "e">>

LowConfidence == <<"l", "o", "w", " ", "c", "o", "n", "f", "i", "d", "e", "n", "c", "e">>

MediumConfidence == <<"m", "e", "d", "i", "u", "m", " ", "c", "o", "n", "f", "i", "d", "e", "n", "c", "e">>

\* The chain with the low test ahead of the high test.
ConfidenceLabelLowFirst(content) ==
    IF Contains(content, QuestionMark) \/ Contains(LowerStr(content), LowConfidence)
    THEN "low"
    ELSE IF Contains(content, CheckMark) \/ Contains(LowerStr(content), HighConfidence)
    THEN "high"
    ELSE IF Contains(content, WarningSign) \/ Contains(LowerStr(content), MediumConfidence)
    THEN "medium"
    ELSE "unknown"

\* The if/elif chain of the loop body.
ConfidenceLabel(content) ==
    IF Contains(content, CheckMark) \/ Contains(LowerStr(content), HighConfidence)
    THEN "high"
    ELSE IF Contains(content, QuestionMark) \/ Contains(LowerStr(content), LowConfidence)
    THEN "low"
    ELSE IF Contains(content, WarningSign) \/ Contains(LowerStr(content), MediumConfidence)
    THEN "medium"
    ELSE "unknown"

ClassifyStart(sections) ==
    [pc |-> "loop", sections |-> sections, i |-> 1, confidences |-> <<>>]

\* One iteration of "for name, content in sections.items()".
ClassifySection(st) ==
    [st EXCEPT !.confidences = DictSet(st.confidences, st.sections[st.i].k,
                                       ConfidenceLabel(st.sections[st.i].v)),
               !.i = st.i + 1]

RECURSIVE ClassifyLoop(_)
ClassifyLoop(st) ==
    IF st.i > Len(st.sections) THEN st ELSE ClassifyLoop(ClassifySection(st))

\* The confidences mapping extract_confidence_levels returns.
ExtractConfidenceLevels(sections) == ClassifyLoop(ClassifyStart(sections)).confidences

(***************************************************************************)
(* extract_issues: risks from "What Could Go Wrong", bugs from "Current    *)
(* System State".                                                          *)
(***************************************************************************)
WhatCouldGoWrong == <<"W", "h", "a", "t", " ", "C", "o", "u", "l", "d", " ", "G", "o", " ", "W", "r", "o", "n", "g">>

CurrentSystemState == <<"C", "u", "r", "r", "e", "n", "t", " ", "S", "y", "s", "t", "e", "m", " ", "S", "t", "a", "t", "e">>

BugKeywords ==
    { <<"b", "r", "o", "k", "e", "n">>,
      <<"b", "u", "g">>,
      <<"i", "s", "s", "u", "e">>,
      <<"e", "r", "r", "o", "r">>,
      <<"d", "o", "e", "s", "n", "t", " ", "w", "o", "r", "k">> }

\* line.startswith('-') or line.startswith('*')
StartsWithBullet(line) == StartsWith(line, <<"-">>) \/ StartsWith(line, <<"*">>)

\* The description as it would be with every leading bullet removed.
DescriptionAllBullets(stripped) ==
    LET rest == {i \in 1..Len(stripped) : stripped[i] \notin {"-", "*"}}
    IN  IF rest = {} THEN <<>> ELSE Strip(DropFirst(stripped, SetMin(rest) - 1))

\* line[1:].strip() of a line already stripped
Description(stripped) == Strip(DropFirst(stripped, 1))

\* The bug test as it would be without the bullet condition.
IsBugLineKeywordOnly(line) == \E kw \in BugKeywords : Contains(LowerStr(line), kw)

\* The two nested conditions of the second scan.
IsBugLine(line) ==
    /\ \E kw \in BugKeywords : Contains(LowerStr(line), kw)
    /\ StartsWithBullet(Strip(line))

IsRiskLine(line) == StartsWithBullet(Strip(line))

\* The issues appended for the matching lines, in line order.
IssuesOf(hits, type) ==
    [n \in 1..Len(hits) |-> [type |-> type, description |-> Description(Strip(hits[n]))]]

\* for line in sections.get('What Could Go Wrong', '').split('\n'): ...
RiskIssues(sections) ==
    IssuesOf(SelectSeq(Split(DictGetOr(sections, WhatCouldGoWrong, <<>>), NL), IsRiskLine),
             "risk")

\* for line in sections.get('Current System State', '').split('\n'): ...
BugIssues(sections) ==
    IssuesOf(SelectSeq(Split(DictGetOr(sections, CurrentSystemState, <<>>), NL), IsBugLine),
             "bug")

\* The list as it would be with the second scan ahead of the first.
ExtractIssuesBugsFirst(sections) == BugIssues(sections) \o RiskIssues(sections)

\* The list extract_issues returns: the risks, then the bugs.
ExtractIssues(sections) == RiskIssues(sections) \o BugIssues(sections)

(***************************************************************************)
(* list_handoffs' sort and analyze_handoffs: the fold of a listing into    *)
(* the snapshot.  A file is [name, mtime, content], mtime in seconds; a    *)
(* datetime is the number of seconds it stands for.  time_span is None or  *)
(* a dict: it is held as a sequence, empty for None and of one record      *)
(* otherwise, so that "if data['time_span']" is "time_span # <<>>".        *)
(***************************************************************************)
SecondsPerDay == 86400

\* handoffs.sort(key=lambda f: f.stat().st_mtime, reverse=True): stable,
\* files of equal mtime keep their order.
SortNewestFirst(fs) ==
    LET Rank(i) == 1 + Cardinality({j \in 1..Len(fs) :
                        \/ fs[j].mtime > fs[i].mtime
                        \/ (fs[j].mtime = fs[i].mtime /\ j < i)})
    IN  [n \in 1..Len(fs) |-> fs[CHOOSE i \in 1..Len(fs) : Rank(i) = n]]

\* The dict parse_handoff returns for a file.
ParseHandoff(file) ==
    [filename |-> file.name,
     sections |-> ParseSections(file.content),
     modified |-> file.mtime]

\* data['confidence_trends'][section][level] += 1 on a defaultdict whose
\* missing entries start as {'high': 0, 'medium': 0, 'low': 0}.
BumpTrend(trends, section, level) ==
    LET old == DictGetOr(trends, section, [high |-> 0, medium |-> 0, low |-> 0])
    IN  DictSet(trends, section, [old EXCEPT ![level] = @ + 1])

\* The trend fold as it would be without the level test, an unknown label
\* counted as low.
RECURSIVE FoldTrendsUnfiltered(_, _, _)
FoldTrendsUnfiltered(trends, confidences, n) ==
    IF n > Len(confidences) THEN trends
    ELSE FoldTrendsUnfiltered(
             BumpTrend(trends, confidences[n].k,
                       IF confidences[n].v = "unknown" THEN "low" ELSE confidences[n].v),
             confidences, n + 1)

\* for section, level in confidences.items(): if level in (...): ... += 1
RECURSIVE FoldTrends(_, _, _)
FoldTrends(trends, confidences, n) ==
    IF n > Len(confidences) THEN trends
    ELSE FoldTrends(IF confidences[n].v \in {"high", "medium", "low"}
                    THEN BumpTrend(trends, confidences[n].k, confidences[n].v)
                    ELSE trends,
                    confidences, n + 1)

\* The frequency fold as it would be with "= 1" in place of "+= 1".
RECURSIVE FoldFrequencyAssign(_, _, _)
FoldFrequencyAssign(freq, sections, n) ==
    IF n > Len(sections) THEN freq
    ELSE FoldFrequencyAssign(DictSet(freq, sections[n].k, 1), sections, n + 1)

\* for section_name in parsed['sections'].keys():
\*     data['sections_frequency'][section_name] += 1
RECURSIVE FoldFrequency(_, _, _)
FoldFrequency(freq, sections, n) ==
    IF n > Len(sections) THEN freq
    ELSE FoldFrequency(DictSet(freq, sections[n].k, DictGetOr(freq, sections[n].k, 0) + 1),
                       sections, n + 1)

\* The issues of one document, each with its filename and timestamp.
StampedIssues(parsed) ==
    LET found == ExtractIssues(parsed.sections)
    IN  [n \in 1..Len(found) |->
            [type |-> found[n].type, description |-> found[n].description,
             handoff |-> parsed.filename, timestamp |-> parsed.modified]]

\* The data dict as built before the loop.
EmptyData(handoffs) ==
    [total_handoffs |-> Len(handoffs),
     time_span |-> <<>>,
     handoffs |-> <<>>,
     issues |-> <<>>,
     confidence_trends |-> <<>>,
     sections_frequency |-> <<>>,
     project_phases |-> <<>>]

\* Entry, with the early return "if not handoffs: return data".
AnalyzeStart(handoffs) ==
    [pc |-> IF handoffs = <<>> THEN "returned" ELSE "fold",
     handoffs |-> handoffs, i |-> 1, timestamps |-> <<>>, data |-> EmptyData(handoffs)]

\* One iteration of "for handoff in handoffs".
AnalyzeDocument(st) ==
    LET parsed == ParseHandoff(st.handoffs[st.i])
    IN  [st EXCEPT
            !.i = st.i + 1,
            !.timestamps = Append(st.timestamps, parsed.modified),
            !.data = [st.data EXCEPT
                !.handoffs = Append(st.data.handoffs, parsed),
                !.issues = st.data.issues \o StampedIssues(parsed),
                !.confidence_trends =
                    FoldTrends(st.data.confidence_trends,
                               ExtractConfidenceLevels(parsed.sections), 1),
                !.sections_frequency =
                    FoldFrequency(st.data.sections_frequency, parsed.sections, 1)]]

SeqRange(q) == {q[n] : n \in 1..Len(q)}

\* The time span as it would be if only two or more timestamps made one.
TimeSpanOfSeveral(timestamps) ==
    IF Len(timestamps) > 1
    THEN <<[start |-> SetMin(SeqRange(timestamps)),
            end |-> SetMax(SeqRange(timestamps)),
            duration_days |->
                (SetMax(SeqRange(timestamps)) - SetMin(SeqRange(timestamps)))
                    \div SecondsPerDay]>>
    ELSE <<>>

\* The time span as it would be with the days counted between the two
\* calendar dates.
TimeSpanOfCalendarDays(timestamps) ==
    IF timestamps # <<>>
    THEN <<[start |-> SetMin(SeqRange(timestamps)),
            end |-> SetMax(SeqRange(timestamps)),
            duration_days |->
                (SetMax(SeqRange(timestamps)) \div SecondsPerDay)
                    - (SetMin(SeqRange(timestamps)) \div SecondsPerDay)]>>
    ELSE <<>>

\* if timestamps: data['time_span'] = {start, end, duration_days}
TimeSpanOf(timestamps) ==
    IF timestamps # <<>>
    THEN <<[start |-> SetMin(SeqRange(timestamps)),
            end |-> SetMax(SeqRange(timestamps)),
            duration_days |->
                (SetMax(SeqRange(timestamps)) - SetMin(SeqRange(timestamps)))
                    \div SecondsPerDay]>>
    ELSE <<>>

\* After the loop: the time span, and the return.
AnalyzeFinish(st) ==
    [st EXCEPT !.data = [st.data EXCEPT !.time_span = TimeSpanOf(st.timestamps)],
               !.pc = "returned"]

RECURSIVE AnalyzeLoop(_)
AnalyzeLoop(st) == IF st.i > Len(st.handoffs) THEN st ELSE AnalyzeLoop(AnalyzeDocument(st))

\* The snapshot analyze_handoffs returns.
AnalyzeHandoffs(handoffs) ==
    LET st == AnalyzeStart(handoffs)
    IN  IF st.pc = "returned" THEN st.data ELSE AnalyzeFinish(AnalyzeLoop(st)).data

(***************************************************************************)
(* print_summary.  The output is the sequence of the printed lines, each a *)
(* tuple opening with what the line is; a date (strftime('%Y-%m-%d')) is   *)
(* the day number.  A renderer call ends as [out, ret, raised]; raised is  *)
(* "none" or the name of the exception that left it, ret is <<>> for no     *)
(* value returned and <<n>> for "return n".                                *)
(***************************************************************************)
\* No renderer has been called yet.
NoCall == [call |-> "none", out |-> <<>>, ret |-> <<>>, raised |-> "none"]

TopSections == 10

SectionNameWidth == 30

BarUnit == 2

DateOf(t) == t \div SecondsPerDay

\* The ranking as it would be with equal counts in reverse insertion order.
MostCommonAllLatestFirst(counter) ==
    LET Rank(i) == 1 + Cardinality({j \in 1..Len(counter) :
                        \/ counter[j].v > counter[i].v
                        \/ (counter[j].v = counter[i].v /\ j > i)})
    IN  [n \in 1..Len(counter) |-> counter[CHOOSE i \in 1..Len(counter) : Rank(i) = n]]

\* Counter.most_common(): by count, largest first; equal counts keep their
\* insertion order.
MostCommonAll(counter) ==
    LET Rank(i) == 1 + Cardinality({j \in 1..Len(counter) :
                        \/ counter[j].v > counter[i].v
                        \/ (counter[j].v = counter[i].v /\ j < i)})
    IN  [n \in 1..Len(counter) |-> counter[CHOOSE i \in 1..Len(counter) : Rank(i) = n]]

\* Counter.most_common(n)
MostCommon(counter, n) == TakeFirst(MostCommonAll(counter), n)

\* Counter([i['type'] for i in issues])
RECURSIVE CountTypes(_, _, _)
CountTypes(counter, issues, n) ==
    IF n > Len(issues) THEN counter
    ELSE CountTypes(DictSet(counter, issues[n].type,
                            DictGetOr(counter, issues[n].type, 0) + 1),
                    issues, n + 1)

\* str.capitalize() of the two issue types
Capitalize(type) == IF type = "risk" THEN "Risk" ELSE IF type = "bug" THEN "Bug" ELSE type

\* The rate test as it would be with ">= 0".
ShowsRateFromZero(span) == span.duration_days >= 0

\* if span['duration_days'] > 0:
ShowsRate(span) == span.duration_days > 0

\* freq = data['total_handoffs'] / span['duration_days'], and its line
RateLines(data, span) ==
    IF span.duration_days = 0
    THEN [raised |-> "ZeroDivisionError", out |-> <<>>]
    ELSE [raised |-> "none",
          out |-> <<<<"frequency", data.total_handoffs, span.duration_days>>>>]

\* The block under "if data['time_span']:".
TimeSpanLines(data) ==
    IF data.time_span = <<>> THEN [raised |-> "none", out |-> <<>>]
    ELSE LET span == data.time_span[1]
             head == << <<"time span", DateOf(span.start), DateOf(span.end)>>,
                        <<"duration", span.duration_days>> >>
             rate == IF ShowsRate(span) THEN RateLines(data, span)
                     ELSE [raised |-> "none", out |-> <<>>]
         IN  [raised |-> rate.raised, out |-> head \o rate.out]

\* The "Most Common Sections" block.
SectionLinesOut(data) ==
    LET top == MostCommon(data.sections_frequency, TopSections)
    IN  <<<<"sections header">>>> \o
        [n \in 1..Len(top) |->
            <<"section", TakeFirst(top[n].k, SectionNameWidth), top[n].v * BarUnit, top[n].v>>]

\* The "Issues Summary" block.
IssueTypeLines(data) ==
    LET types == MostCommonAll(CountTypes(<<>>, data.issues, 1))
    IN  <<<<"issues header">>>> \o
        [n \in 1..Len(types) |-> <<"issue type", Capitalize(types[n].k), types[n].v>>]

PrintSummary(data) ==
    LET head == << <<"summary header">>,
                   <<"total", data.total_handoffs>>,
                   <<"issues", Len(data.issues)>> >>
        span == TimeSpanLines(data)
    IN  IF span.raised # "none"
        THEN [call |-> "print_summary", out |-> head \o span.out,
              ret |-> <<>>, raised |-> span.raised]
        ELSE [call |-> "print_summary",
              out |-> head \o span.out \o SectionLinesOut(data) \o IssueTypeLines(data),
              ret |-> <<0>>, raised |-> "none"]

(***************************************************************************)
(* export_json.  A Python value is [t, v] with t its type ("int", "str",   *)
(* "list", "dict", "NoneType", "datetime"); a JSON document is [t, v] with *)
(* t one of "number", "string", "array", "object", "null".  json.dumps     *)
(* raises TypeError on a datetime.                                         *)
(***************************************************************************)
JsonPath == "handoff-analytics.json"

PyInt(n) == [t |-> "int", v |-> n]

PyStr(x) == [t |-> "str", v |-> x]

PyList(items) == [t |-> "list", v |-> items]

PyDict(members) == [t |-> "dict", v |-> members]

PyNone == [t |-> "NoneType", v |-> 0]

Member(key, val) == [k |-> key, v |-> val]

\* datetime.isoformat(): the date and the time of day
IsoFormat(t) == PyStr(<<t \div SecondsPerDay, "T", t % SecondsPerDay>>)

RECURSIVE Serializable(_)
Serializable(x) ==
    CASE x.t \in {"int", "str", "NoneType"} -> TRUE
      [] x.t = "list" -> \A n \in 1..Len(x.v) : Serializable(x.v[n])
      [] x.t = "dict" -> \A n \in 1..Len(x.v) : Serializable(x.v[n].v)
      [] OTHER -> FALSE

\* json.dumps of a serializable value
RECURSIVE JsonDumps(_)
JsonDumps(x) ==
    CASE x.t = "int" -> [t |-> "number", v |-> x.v]
      [] x.t = "str" -> [t |-> "string", v |-> x.v]
      [] x.t = "NoneType" -> [t |-> "null", v |-> 0]
      [] x.t = "list" -> [t |-> "array", v |-> [n \in 1..Len(x.v) |-> JsonDumps(x.v[n])]]
      [] x.t = "dict" ->
            [t |-> "object",
             v |-> [n \in 1..Len(x.v) |-> Member(x.v[n].k, JsonDumps(x.v[n].v))]]

\* json.loads: an object becomes a dict, member by member.
RECURSIVE JsonLoads(_)
RECURSIVE LoadMembers(_, _, _)
JsonLoads(j) ==
    CASE j.t = "number" -> PyInt(j.v)
      [] j.t = "string" -> PyStr(j.v)
      [] j.t = "null" -> PyNone
      [] j.t = "array" -> PyList([n \in 1..Len(j.v) |-> JsonLoads(j.v[n])])
      [] j.t = "object" -> PyDict(LoadMembers(<<>>, j.v, 1))

LoadMembers(d, members, n) ==
    IF n > Len(members) THEN d
    ELSE LoadMembers(DictSet(d, members[n].k, JsonLoads(members[n].v)), members, n + 1)

\* The exported issue as it would be with its timestamp left a datetime.
ExportIssueRawTimestamp(issue) ==
    PyDict(<< Member("type", PyStr(issue.type)),
              Member("description", PyStr(issue.description)),
              Member("handoff", PyStr(issue.handoff)),
              Member("timestamp", [t |-> "datetime", v |-> issue.timestamp]) >>)

\* {**issue, 'timestamp': issue['timestamp'].isoformat()}
ExportIssue(issue) ==
    PyDict(<< Member("type", PyStr(issue.type)),
              Member("description", PyStr(issue.description)),
              Member("handoff", PyStr(issue.handoff)),
              Member("timestamp", IsoFormat(issue.timestamp)) >>)

ExportTrend(levels) ==
    PyDict(<< Member("high", PyInt(levels.high)),
              Member("medium", PyInt(levels.medium)),
              Member("low", PyInt(levels.low)) >>)

\* if data['time_span']: export_data['time_span'] = {...}
TimeSpanMember(data) ==
    IF data.time_span = <<>> THEN <<>>
    ELSE <<Member("time_span",
                  PyDict(<< Member("start", IsoFormat(data.time_span[1].start)),
                            Member("end", IsoFormat(data.time_span[1].end)),
                            Member("duration_days",
                                   PyInt(data.time_span[1].duration_days)) >>))>>

\* [... for issue in data['issues']]
ExportIssues(issues) == PyList([n \in 1..Len(issues) |-> ExportIssue(issues[n])])

\* export_data
ExportData(data) ==
    PyDict(<< Member("total_handoffs", PyInt(data.total_handoffs)),
              Member("issues", ExportIssues(data.issues)),
              Member("confidence_trends",
                     PyDict([n \in 1..Len(data.confidence_trends) |->
                                Member(data.confidence_trends[n].k,
                                       ExportTrend(data.confidence_trends[n].v))])),
              Member("sections_frequency",
                     PyDict([n \in 1..Len(data.sections_frequency) |->
                                Member(data.sections_frequency[n].k,
                                       PyInt(data.sections_frequency[n].v))])) >>
           \o TimeSpanMember(data))

\* export_json(data): the call's result and the disk after it.
ExportJson(data, files) ==
    IF Serializable(ExportData(data))
    THEN [render |-> [call |-> "export_json", out |-> <<<<"json saved", JsonPath>>>>,
                      ret |-> <<0>>, raised |-> "none"],
          disk |-> DictSet(files, JsonPath, JsonDumps(ExportData(data)))]
    ELSE [render |-> [call |-> "export_json", out |-> <<>>,
                      ret |-> <<>>, raised |-> "TypeError"],
          disk |-> files]

(***************************************************************************)
(* print_timeline, print_confidence, print_issues, generate_html_report.   *)
(***************************************************************************)
ProjectIdentity == <<"P", "r", "o", "j", "e", "c", "t", " ", "I", "d", "e", "n", "t", "i", "t", "y">>

NoDescription == <<"N", "o", " ", "d", "e", "s", "c", "r", "i", "p", "t", "i", "o", "n">>

TimelineLimit == 20

TimelineDescWidth == 50

IssuesPerGroup == 10

IssueDescWidth == 70

HtmlIssueLimit == 50

HtmlIssueDescWidth == 80

HtmlTimelineLimit == 30

HtmlTimelineDescWidth == 60

HtmlPath == "handoff-report.html"

\* strftime('%Y-%m-%d %H:%M'): the minute
MinuteOf(t) == t \div 60

\* identity.split('\n')[0][:width] if identity else 'No description'
BriefDescription(parsed, width) ==
    LET identity == DictGetOr(parsed.sections, ProjectIdentity, <<>>)
    IN  IF identity # <<>> THEN TakeFirst(Split(identity, NL)[1], width) ELSE NoDescription

\* The timeline as it would be with ">=" in the test of the remainder line.
PrintTimelineMoreFromLimit(data) ==
    IF data.handoffs = <<>>
    THEN [call |-> "print_timeline", out |-> <<<<"no handoffs">>>>,
          ret |-> <<1>>, raised |-> "none"]
    ELSE LET shown == TakeFirst(data.handoffs, TimelineLimit)
         IN  [call |-> "print_timeline",
              out |-> <<<<"timeline header">>>> \o
                      [n \in 1..Len(shown) |->
                          <<"entry", n, MinuteOf(shown[n].modified),
                            BriefDescription(shown[n], TimelineDescWidth)>>] \o
                      (IF Len(data.handoffs) >= TimelineLimit
                       THEN <<<<"more", Len(data.handoffs) - TimelineLimit>>>> ELSE <<>>),
              ret |-> <<0>>, raised |-> "none"]

PrintTimeline(data) ==
    IF data.handoffs = <<>>
    THEN [call |-> "print_timeline", out |-> <<<<"no handoffs">>>>,
          ret |-> <<1>>, raised |-> "none"]
    ELSE LET shown == TakeFirst(data.handoffs, TimelineLimit)
         IN  [call |-> "print_timeline",
              out |-> <<<<"timeline header">>>> \o
                      [n \in 1..Len(shown) |->
                          <<"entry", n, MinuteOf(shown[n].modified),
                            BriefDescription(shown[n], TimelineDescWidth)>>] \o
                      (IF Len(data.handoffs) > TimelineLimit
                       THEN <<<<"more", Len(data.handoffs) - TimelineLimit>>>> ELSE <<>>),
              ret |-> <<0>>, raised |-> "none"]

\* sum(levels.values())
LevelsTotal(levels) == levels.high + levels.medium + levels.low

PrintConfidence(data) ==
    IF data.confidence_trends = <<>>
    THEN [call |-> "print_confidence", out |-> <<<<"no confidence data">>>>,
          ret |-> <<1>>, raised |-> "none"]
    ELSE LET rows == SelectSeq(data.confidence_trends, LAMBDA e : LevelsTotal(e.v) # 0)
         IN  [call |-> "print_confidence",
              out |-> <<<<"confidence header">>>> \o
                      [n \in 1..Len(rows) |->
                          <<"confidence", rows[n].k, rows[n].v.high, rows[n].v.medium,
                            rows[n].v.low, LevelsTotal(rows[n].v)>>],
              ret |-> <<0>>, raised |-> "none"]

\* The sort as it would be without reverse=True.
OldestIssuesFirst(issues) ==
    LET Rank(i) == 1 + Cardinality({j \in 1..Len(issues) :
                        \/ issues[j].timestamp < issues[i].timestamp
                        \/ (issues[j].timestamp = issues[i].timestamp /\ j < i)})
    IN  [n \in 1..Len(issues) |-> issues[CHOOSE i \in 1..Len(issues) : Rank(i) = n]]

\* sorted(..., key=lambda i: i['timestamp'], reverse=True): stable
NewestIssuesFirst(issues) ==
    LET Rank(i) == 1 + Cardinality({j \in 1..Len(issues) :
                        \/ issues[j].timestamp > issues[i].timestamp
                        \/ (issues[j].timestamp = issues[i].timestamp /\ j < i)})
    IN  [n \in 1..Len(issues) |-> issues[CHOOSE i \in 1..Len(issues) : Rank(i) = n]]

\* str.upper() of the two issue types
UpperType(type) == IF type = "risk" THEN "RISK" ELSE IF type = "bug" THEN "BUG" ELSE type

\* by_type: the types in the order of their first issue
RECURSIVE TypesInOrder(_, _, _)
TypesInOrder(seen, issues, n) ==
    IF n > Len(issues) THEN seen
    ELSE TypesInOrder(IF \E m \in 1..Len(seen) : seen[m] = issues[n].type
                      THEN seen ELSE Append(seen, issues[n].type),
                      issues, n + 1)

\* The lines of one group of print_issues.
GroupLines(data, type) ==
    LET group == NewestIssuesFirst(SelectSeq(data.issues, LAMBDA i : i.type = type))
        shown == TakeFirst(group, IssuesPerGroup)
    IN  <<<<"group", UpperType(type), Len(group)>>>> \o
        [n \in 1..Len(shown) |->
            <<"issue", DateOf(shown[n].timestamp),
              TakeFirst(shown[n].description, IssueDescWidth)>>] \o
        (IF Len(group) > IssuesPerGroup
         THEN <<<<"more", Len(group) - IssuesPerGroup>>>> ELSE <<>>)

RECURSIVE AllGroupLines(_, _, _)
AllGroupLines(data, types, n) ==
    IF n > Len(types) THEN <<>>
    ELSE GroupLines(data, types[n]) \o AllGroupLines(data, types, n + 1)

PrintIssues(data) ==
    IF data.issues = <<>>
    THEN [call |-> "print_issues", out |-> <<<<"no issues">>>>,
          ret |-> <<0>>, raised |-> "none"]
    ELSE [call |-> "print_issues",
          out |-> <<<<"issues header", Len(data.issues)>>>> \o
                  AllGroupLines(data, TypesInOrder(<<>>, data.issues, 1), 1),
          ret |-> <<0>>, raised |-> "none"]

\* The page generate_html_report builds: its parts, with the wall-clock
\* stamp "now".
HtmlPage(data, now) ==
    [generated |-> now,
     total |-> data.total_handoffs,
     issues_found |-> Len(data.issues),
     days_active |-> IF data.time_span # <<>>
                     THEN <<data.time_span[1].duration_days>> ELSE <<>>,
     sections |-> MostCommonAll(data.sections_frequency),
     confidence |-> SelectSeq(data.confidence_trends, LAMBDA e : LevelsTotal(e.v) > 0),
     issues |-> LET shown == TakeFirst(NewestIssuesFirst(data.issues), HtmlIssueLimit)
                IN  [n \in 1..Len(shown) |->
                        <<shown[n].type, TakeFirst(shown[n].description, HtmlIssueDescWidth),
                          DateOf(shown[n].timestamp)>>],
     timeline |-> LET shown == TakeFirst(data.handoffs, HtmlTimelineLimit)
                  IN  [n \in 1..Len(shown) |->
                          <<MinuteOf(shown[n].modified),
                            BriefDescription(shown[n], HtmlTimelineDescWidth)>>]]

\* generate_html_report(data): the call's result and the disk after it.
GenerateHtmlReport(data, files, now) ==
    [render |-> [call |-> "generate_html_report",
                 out |-> << <<"html generated", HtmlPath>>, <<"open in browser", HtmlPath>> >>,
                 ret |-> <<0>>, raised |-> "none"],
     disk |-> DictSet(files, HtmlPath, HtmlPage(data, now))]

(***************************************************************************)
(* list_handoffs on the resolved directory, and main.  A directory is      *)
(* [exists, entries], its entries in the order glob gives them; an entry   *)
(* is [name, regular, mtime, content, children]: regular is is_file(), and *)
(* children are the names inside an entry that is itself a directory.      *)
(***************************************************************************)
GlobPrefix == <<"A", "I", "_", "C", "o", "n", "t", "i", "n", "u", "a", "t", "i", "o", "n", "_", "D", "o", "c", "u", "m", "e", "n", "t", "-">>

GlobSuffix == <<".", "m", "d">>

\* The match of a name against 'AI_Continuation_Document-*.md': the star
\* stands for any characters, none included.
GlobMatches(name) ==
    /\ Len(name) >= Len(GlobPrefix) + Len(GlobSuffix)
    /\ StartsWith(name, GlobPrefix)
    /\ SubSeq(name, Len(name) - Len(GlobSuffix) + 1, Len(name)) = GlobSuffix

\* The listing as it would be without the is_file() test.
ListHandoffsAnyKind(dir) ==
    IF ~dir.exists THEN <<>>
    ELSE LET found == SelectSeq(dir.entries, LAMBDA e : GlobMatches(e.name))
         IN  SortNewestFirst([n \in 1..Len(found) |->
                 [name |-> found[n].name, mtime |-> found[n].mtime,
                  content |-> found[n].content]])

\* if not handoff_dir.exists(): return []; else the matching regular files
\* among the entries, newest first.
ListHandoffs(dir) ==
    IF ~dir.exists THEN <<>>
    ELSE LET found == SelectSeq(dir.entries, LAMBDA e : GlobMatches(e.name) /\ e.regular)
         IN  SortNewestFirst([n \in 1..Len(found) |->
                 [name |-> found[n].name, mtime |-> found[n].mtime,
                  content |-> found[n].content]])

\* The test of main as it would be with "is None".
NoDocumentsIfNone(handoffs) == FALSE

\* if not handoffs:
NoDocuments(handoffs) == handoffs = <<>>

\* What ends main after a renderer call: its return value is the exit code;
\* an exception that leaves main ends the process with a traceback and 1.
ExitOf(call) == IF call.raised # "none" THEN <<1>> ELSE call.ret

\* The renderer main calls for a command, once the export flag is ruled
\* out; no command is the summary.
CommandCall(command, data) ==
    CASE command \in {"none", "summary"} -> PrintSummary(data)
      [] command = "timeline" -> PrintTimeline(data)
      [] command = "confidence" -> PrintConfidence(data)
      [] command = "issues" -> PrintIssues(data)

(***************************************************************************)
(* Specification SpecParse: parse_handoff on every document of at most     *)
(* MaxLines lines drawn from ParseLinePool.                                *)
(***************************************************************************)
ParseLinePool ==
    { <<"#", "#", " ", "A">>,            \* ## A
      <<"#", "#", " ", " ", "A", " ">>,  \* ##  A   (trims to A)
      <<"#", "#", " ", "B">>,            \* ## B
      <<"#", "#", " ">>,                 \* a heading whose text is empty
      <<"#", "#", "A">>,                 \* no space: not a heading
      <<" ", "y", " ">> }

ParseDocs == {Join(ls, NL) : ls \in SeqsUpTo(ParseLinePool, MaxLines)}

ParseInit ==
    /\ parser \in {ParseStart(c) : c \in ParseDocs}
    /\ classifier = Idle
    /\ extractor = Idle
    /\ analysis = Idle
    /\ render = Idle
    /\ disk = <<>>
    /\ corpus = Idle
    /\ proc = Idle

ParseLineStep ==
    /\ parser.pc = "loop"
    /\ parser.i <= Len(parser.lines)
    /\ parser' = ParseLine(parser)
    /\ UNCHANGED <<classifier, extractor, analysis, render, disk, corpus, proc>>

ParseFinishStep ==
    /\ parser.pc = "loop"
    /\ parser.i > Len(parser.lines)
    /\ parser' = ParseFinish(parser)
    /\ UNCHANGED <<classifier, extractor, analysis, render, disk, corpus, proc>>

ParseNext == ParseLineStep \/ ParseFinishStep

SpecParse == ParseInit /\ [][ParseNext]_vars

\* The heading lines of a document, and those whose trimmed text is h.
HeadingLines(lines) == {i \in 1..Len(lines) : IsHeadingLine(lines[i])}

OccurrencesOf(lines, h) == {i \in HeadingLines(lines) : HeadingText(lines[i]) = h}

\* The trimmed body under the heading at line i: the lines up to the next
\* heading line or the end of the input.
BodyUnder(lines, i) ==
    LET stop == SetMin({j \in HeadingLines(lines) \cup {Len(lines) + 1} : j > i})
    IN  Strip(Join(SubSeq(lines, i + 1, stop - 1), NL))

ParseDone == parser.pc = "done"

HeadingTexts(lines) == {HeadingText(lines[i]) : i \in HeadingLines(lines)}

\* Every stored body is the trimmed text between the last line of its
\* heading and the next heading line or the end of the input.
BodiesFollowHeadings ==
    \A h \in DictKeys(parser.sections) :
        /\ OccurrencesOf(parser.lines, h) # {}
        /\ DictGet(parser.sections, h) =
               BodyUnder(parser.lines, SetMax(OccurrencesOf(parser.lines, h)))

\* C14: once a document is parsed, the keys of sections are exactly the
\* trimmed texts of its "## " lines, a heading whose trimmed text is empty
\* included; each body is the lines up to the next heading line or the end
\* of the input, joined and trimmed; lines before the first heading belong
\* to no section.
C14_KeysAreHeadingTexts ==
    ParseDone =>
        /\ DictKeys(parser.sections) = HeadingTexts(parser.lines)
        /\ BodiesFollowHeadings

\* The same statement with the empty heading text left out of the keys.
C14_ExceptEmptyHeading ==
    ParseDone =>
        /\ DictKeys(parser.sections) = HeadingTexts(parser.lines) \ {<<>>}
        /\ BodiesFollowHeadings

(***************************************************************************)
(* Specification SpecConf: extract_confidence_levels on every mapping of   *)
(* at most two sections, in either order: section A's body is at most      *)
(* MaxFragments lines drawn from ConfFragments, section B's body is empty  *)
(* or one of them.                                                         *)
(***************************************************************************)
ConfFragments ==
    { CheckMark,
      QuestionMark,
      WarningSign,
      <<"U+26A0">>,          \* the warning sign without its variation selector
      <<"H", "i", "g", "h", " ", "C", "o", "n", "f", "i", "d", "e", "n", "c", "e">>,
      <<"L", "O", "W", " ", "c", "o", "n", "f", "i", "d", "e", "n", "c", "e">>,
      <<"m", "e", "d", "i", "u", "m", " ", "c", "o", "n", "f", "i", "d", "e", "n", "c", "e">> }

ConfBodies == {Join(fs, NL) : fs \in SeqsUpTo(ConfFragments, MaxFragments)}

HeadingA == <<"A">>

HeadingB == <<"B">>

ConfSections ==
    LET SecA == {<<>>} \cup {<<[k |-> HeadingA, v |-> b]>> : b \in ConfBodies}
        SecB == {<<>>} \cup {<<[k |-> HeadingB, v |-> b]>> : b \in ConfFragments \cup {<<>>}}
    IN  {a \o b : a \in SecA, b \in SecB} \cup {b \o a : a \in SecA, b \in SecB}

ConfInit ==
    /\ classifier \in {ClassifyStart(secs) : secs \in ConfSections}
    /\ parser = Idle
    /\ extractor = Idle
    /\ analysis = Idle
    /\ render = Idle
    /\ disk = <<>>
    /\ corpus = Idle
    /\ proc = Idle

ClassifyStep ==
    /\ classifier.pc = "loop"
    /\ classifier.i <= Len(classifier.sections)
    /\ classifier' = ClassifySection(classifier)
    /\ UNCHANGED <<parser, extractor, analysis, render, disk, corpus, proc>>

ClassifyReturn ==
    /\ classifier.pc = "loop"
    /\ classifier.i > Len(classifier.sections)
    /\ classifier' = [classifier EXCEPT !.pc = "done"]
    /\ UNCHANGED <<parser, extractor, analysis, render, disk, corpus, proc>>

ConfNext == ClassifyStep \/ ClassifyReturn

SpecConf == ConfInit /\ [][ConfNext]_vars

\* A keyword occurs in a body in any letter case.
OccursAnyCase(body, keyword) ==
    \E i \in 1..Len(body) :
        /\ i + Len(keyword) - 1 <= Len(body)
        /\ \A j \in 1..Len(keyword) : LowerChar(body[i + j - 1]) = keyword[j]

HasHighMarker(body) == Contains(body, CheckMark) \/ OccursAnyCase(body, HighConfidence)

HasLowMarker(body) == Contains(body, QuestionMark) \/ OccursAnyCase(body, LowConfidence)

HasMediumMarker(body) ==
    Contains(body, WarningSign) \/ OccursAnyCase(body, MediumConfidence)

\* C2: the label of every section is decided by the first matching rule in
\* the order high, low, medium, unknown, from that section's body alone; a
\* body with both a high and a low marker is labelled high; once the loop
\* has ended every section has a label.
C2_ConfidencePrecedence ==
    /\ \A n \in DictKeys(classifier.confidences) :
         LET body  == DictGet(classifier.sections, n)
             label == DictGet(classifier.confidences, n)
         IN  /\ label \in {"high", "low", "medium", "unknown"}
             /\ (label = "high") <=> HasHighMarker(body)
             /\ (label = "low") <=> (~HasHighMarker(body) /\ HasLowMarker(body))
             /\ (label = "medium") <=>
                    (~HasHighMarker(body) /\ ~HasLowMarker(body) /\ HasMediumMarker(body))
             /\ (HasHighMarker(body) /\ HasLowMarker(body)) => label = "high"
    /\ classifier.pc = "done" =>
         DictKeys(classifier.confidences) = DictKeys(classifier.sections)

\* A classified mapping in which one body holds a high and a low marker and
\* the other section, holding only a low marker, got its own label.
C2_Witness ==
    /\ classifier.pc = "done"
    /\ Len(classifier.sections) = 2
    /\ HasHighMarker(DictGet(classifier.sections, HeadingA))
    /\ HasLowMarker(DictGet(classifier.sections, HeadingA))
    /\ DictGet(classifier.confidences, HeadingA) = "high"
    /\ DictGet(classifier.confidences, HeadingB) = "low"

(***************************************************************************)
(* Specification SpecIssues: extract_issues on every mapping whose two     *)
(* scanned sections are absent or hold lines drawn from IssueLinePool (one *)
(* of the two at most MaxIssueLines lines, the other at most one), in      *)
(* either order, with or without a third section whose heading differs     *)
(* from a scanned one in letter case only.                                 *)
(***************************************************************************)
IssueLinePool ==
    { <<"-", " ", "D", "a", "t", "a", " ", "m", "a", "y", " ", "b", "e", " ", "s", "t", "a", "l", "e">>,
      <<"-", " ", "D", "i", "s", "k", " ", "c", "o", "u", "l", "d", " ", "f", "i", "l", "l", " ", "u", "p">>,
      <<" ", " ", "*", " ", "D", "i", "s", "k", " ", "E", "r", "r", "o", "r", " ">>,
      <<"e", "r", "r", "o", "r", " ", "i", "n", " ", "l", "o", "g">>,
      <<"-", "-", " ", "b", "u", "g">> }

\* Bodies as parse_handoff stores them: joined and stripped.
IssueBodies == {Strip(Join(ls, NL)) : ls \in SeqsUpTo(IssueLinePool, MaxIssueLines)}

LowercaseStateHeading == <<"c", "u", "r", "r", "e", "n", "t", " ", "s", "y", "s", "t", "e", "m", " ", "s", "t", "a", "t", "e">>

OtherSections ==
    {<<>>, <<[k |-> LowercaseStateHeading, v |-> <<"-", " ", "b", "u", "g">>]>>}

ShortBodies == {Strip(l) : l \in IssueLinePool}

OneSection(h, bodies) == {<<>>} \cup {<<[k |-> h, v |-> b]>> : b \in bodies}

IssuePairs ==
    {<<w, c>> : w \in OneSection(WhatCouldGoWrong, IssueBodies),
                c \in OneSection(CurrentSystemState, ShortBodies)}
    \cup {<<w, c>> : w \in OneSection(WhatCouldGoWrong, ShortBodies),
                     c \in OneSection(CurrentSystemState, IssueBodies)}

IssueSections ==
    {p[1] \o p[2] \o o : p \in IssuePairs, o \in OtherSections}
    \cup {p[2] \o p[1] \o o : p \in IssuePairs, o \in OtherSections}

IssuesInit ==
    /\ extractor \in {[pc |-> "risks", sections |-> secs, issues |-> <<>>] :
                         secs \in IssueSections}
    /\ parser = Idle
    /\ classifier = Idle
    /\ analysis = Idle
    /\ render = Idle
    /\ disk = <<>>
    /\ corpus = Idle
    /\ proc = Idle

ScanRisks ==
    /\ extractor.pc = "risks"
    /\ extractor' = [extractor EXCEPT !.issues = @ \o RiskIssues(extractor.sections),
                                      !.pc = "bugs"]
    /\ UNCHANGED <<parser, classifier, analysis, render, disk, corpus, proc>>

ScanBugs ==
    /\ extractor.pc = "bugs"
    /\ extractor' = [extractor EXCEPT !.issues = @ \o BugIssues(extractor.sections),
                                      !.pc = "done"]
    /\ UNCHANGED <<parser, classifier, analysis, render, disk, corpus, proc>>

IssuesNext == ScanRisks \/ ScanBugs

SpecIssues == IssuesInit /\ [][IssuesNext]_vars

\* The lines of the section named h (none when the section is absent), and
\* the k-th smallest member of a set of line numbers.
SectionLines(sections, h) ==
    IF \E i \in 1..Len(sections) : sections[i].k = h
    THEN Split(DictGet(sections, h), NL)
    ELSE <<>>

KthOf(S, k) == CHOOSE x \in S : Cardinality({y \in S : y < x}) = k - 1

\* The first non-blank position of a line, its last one, and the text left
\* when the character at the first one is dropped and the rest is trimmed.
FirstInk(line) == SetMin({i \in 1..Len(line) : line[i] \notin Whitespace})

Bulleted(line) ==
    /\ \E i \in 1..Len(line) : line[i] \notin Whitespace
    /\ line[FirstInk(line)] \in {"-", "*"}

AfterBullet(line) == Strip(SubSeq(line, FirstInk(line) + 1, Len(line)))

OfType(issues, type) == SelectSeq(issues, LAMBDA x : x.type = type)

\* What a scan must yield for the lines numbered in picks.
Expected(lines, picks, type) ==
    [n \in 1..Cardinality(picks) |->
        [type |-> type, description |-> AfterBullet(lines[KthOf(picks, n)])]]

\* C5: once the first scan has run, the risk issues are, in line order, one
\* per line of the "What Could Go Wrong" section whose trimmed form starts
\* with "-" or "*", described by the line without that one bullet, trimmed;
\* none when the section is absent; the two-line example gives its two
\* descriptions in order.
C5_RisksFromBullets ==
    extractor.pc \in {"bugs", "done"} =>
        LET lines == SectionLines(extractor.sections, WhatCouldGoWrong)
            picks == {i \in 1..Len(lines) : Bulleted(lines[i])}
            risks == OfType(extractor.issues, "risk")
        IN  /\ risks = Expected(lines, picks, "risk")
            /\ ~DictHas(extractor.sections, WhatCouldGoWrong) => risks = <<>>
            /\ lines = << <<"-", " ", "D", "a", "t", "a", " ", "m", "a", "y", " ", "b", "e", " ", "s", "t", "a", "l", "e">>,
                          <<"-", " ", "D", "i", "s", "k", " ", "c", "o", "u", "l", "d", " ", "f", "i", "l", "l", " ", "u", "p">> >>
                 => risks = << [type |-> "risk", description |-> <<"D", "a", "t", "a", " ", "m", "a", "y", " ", "b", "e", " ", "s", "t", "a", "l", "e">>],
                               [type |-> "risk", description |-> <<"D", "i", "s", "k", " ", "c", "o", "u", "l", "d", " ", "f", "i", "l", "l", " ", "u", "p">>] >>

\* The first scan has run on a section with two bulleted lines, one of them
\* indented and one opening with two bullets, and yielded two risks.
C5_Witness ==
    /\ extractor.pc = "bugs"
    /\ Len(extractor.issues) = 2
    /\ \E i \in 1..2 : extractor.issues[i].description = <<"-", " ", "b", "u", "g">>
    /\ \E i \in 1..2 : extractor.issues[i].description = <<"D", "i", "s", "k", " ", "E", "r", "r", "o", "r">>

HasKeyword(line) == \E kw \in BugKeywords : \E i \in 1..Len(line) :
    /\ i + Len(kw) - 1 <= Len(line)
    /\ \A j \in 1..Len(kw) : LowerChar(line[i + j - 1]) = kw[j]

\* C6: once both scans have run, the bug issues are, in line order, one per
\* line of the "Current System State" section that both holds a keyword in
\* any letter case and is bulleted; a keyword line without a bullet and a
\* bulleted line without a keyword yield nothing; every issue is a risk or
\* a bug, the risks first, so no other section adds one.
C6_BugsFromKeywordBullets ==
    extractor.pc = "done" =>
        LET lines == SectionLines(extractor.sections, CurrentSystemState)
            picks == {i \in 1..Len(lines) : HasKeyword(lines[i]) /\ Bulleted(lines[i])}
            wrong == SectionLines(extractor.sections, WhatCouldGoWrong)
            risky == {i \in 1..Len(wrong) : Bulleted(wrong[i])}
        IN  /\ OfType(extractor.issues, "bug") = Expected(lines, picks, "bug")
            /\ extractor.issues =
                   Expected(wrong, risky, "risk") \o Expected(lines, picks, "bug")

\* Both scans have run on a mapping that holds the lowercase-named section
\* (a bulleted keyword line under a heading that is not scanned) and a
\* "Current System State" section with a keyword line without a bullet and
\* a bulleted keyword line: exactly one bug came out.
C6_Witness ==
    /\ extractor.pc = "done"
    /\ DictHas(extractor.sections, LowercaseStateHeading)
    /\ ~DictHas(extractor.sections, WhatCouldGoWrong)
    /\ \E b \in {Join(<<x, y>>, NL) :
                    x \in {<<"e", "r", "r", "o", "r", " ", "i", "n", " ", "l", "o", "g">>},
                    y \in {<<"-", "-", " ", "b", "u", "g">>}} :
          DictGetOr(extractor.sections, CurrentSystemState, <<>>) = b
    /\ extractor.issues = <<[type |-> "bug", description |-> <<"-", " ", "b", "u", "g">>]>>

(***************************************************************************)
(* Specification SpecLib: analyze_handoffs on every listing of at most     *)
(* MaxDocs files (contents from DocPool, modification times on half-day    *)
(* marks up to MaxHalfDays) in the order list_handoffs gives them, the     *)
(* empty listing included, followed by renderer calls on the snapshot.     *)
(***************************************************************************)
\* An opening line without a heading; a body with a low and a high marker;
\* one bug, in a section that comes before the risks; two risks under a
\* medium marker; a medium "Notes".
DocRisks ==
    Join(<< <<"i", "n", "t", "r", "o">>,
            <<"#", "#", " ", "P", "r", "o", "j", "e", "c", "t", " ", "I", "d", "e", "n", "t", "i", "t", "y">>,
            <<"U+2753", " ", "m", "a", "y", "b", "e", " ", "U+2705">>,
            <<"#", "#", " ", "C", "u", "r", "r", "e", "n", "t", " ", "S", "y", "s", "t", "e", "m", " ", "S", "t", "a", "t", "e">>,
            <<"*", " ", "c", "a", "c", "h", "e", " ", "b", "r", "o", "k", "e", "n">>,
            <<"#", "#", " ", "W", "h", "a", "t", " ", "C", "o", "u", "l", "d", " ", "G", "o", " ", "W", "r", "o", "n", "g">>,
            <<"-", " ", "D", "a", "t", "a", " ", "m", "a", "y", " ", "b", "e", " ", "s", "t", "a", "l", "e">>,
            <<"*", " ", "D", "i", "s", "k", " ", "e", "r", "r", "o", "r", " ", "U+26A0", "U+FE0F">>,
            <<"#", "#", " ", "N", "o", "t", "e", "s">>,
            <<"M", "e", "d", "i", "u", "m", " ", "C", "o", "n", "f", "i", "d", "e", "n", "c", "e">> >>, NL)

\* A heading that occurs twice (its last body has no marker), one bug.
DocRepeated ==
    Join(<< <<"#", "#", " ", "N", "o", "t", "e", "s">>,
            <<"l", "o", "w", " ", "c", "o", "n", "f", "i", "d", "e", "n", "c", "e">>,
            <<"#", "#", " ", "C", "u", "r", "r", "e", "n", "t", " ", "S", "y", "s", "t", "e", "m", " ", "S", "t", "a", "t", "e">>,
            <<"-", " ", "l", "o", "g", "i", "n", " ", "b", "u", "g">>,
            <<"e", "r", "r", "o", "r", " ", "i", "n", " ", "l", "o", "g">>,
            <<"#", "#", " ", "N", "o", "t", "e", "s">>,
            <<"p", "l", "a", "i", "n">> >>, NL)

\* No heading at all.
DocBare == <<"n", "o", " ", "h", "e", "a", "d", "i", "n", "g", "s", " ", "h", "e", "r", "e">>

DocPool == {DocRisks, DocRepeated, DocBare}

HalfDay == SecondsPerDay \div 2

MTimes == {k * HalfDay : k \in 0..MaxHalfDays}

\* The n-th entry of the directory: AI_Continuation_Document-<n>.md
FileName(n) == <<"doc", n>>

\* Directory listings in the order glob gives them.
Listings ==
    UNION {{[n \in 1..k |-> [name |-> FileName(n), mtime |-> f[n][1], content |-> f[n][2]]] :
               f \in [1..k -> MTimes \X DocPool]} : k \in 0..MaxDocs}

LibInit ==
    /\ analysis \in {AnalyzeStart(SortNewestFirst(fs)) : fs \in Listings}
    /\ render = NoCall
    /\ disk = <<>>
    /\ corpus = Idle
    /\ proc = Idle
    /\ parser = Idle
    /\ classifier = Idle
    /\ extractor = Idle

AnalyzeStep ==
    /\ analysis.pc = "fold"
    /\ analysis.i <= Len(analysis.handoffs)
    /\ analysis' = AnalyzeDocument(analysis)
    /\ UNCHANGED <<parser, classifier, extractor, render, disk, corpus, proc>>

AnalyzeReturn ==
    /\ analysis.pc = "fold"
    /\ analysis.i > Len(analysis.handoffs)
    /\ analysis' = AnalyzeFinish(analysis)
    /\ UNCHANGED <<parser, classifier, extractor, render, disk, corpus, proc>>

\* The wall clock read by generate_html_report.
Clock == {30 * SecondsPerDay, 30 * SecondsPerDay + 1}

\* The snapshot as a confidence view would leave it if it looked up
\* confidence_trends[section] for every counted section: a defaultdict
\* stores its default under a key that is looked up and missing.
SnapshotAfterLookups(call, data) ==
    IF call # "print_confidence" THEN data
    ELSE [data EXCEPT !.confidence_trends =
             @ \o SelectSeq([n \in 1..Len(data.sections_frequency) |->
                                [k |-> data.sections_frequency[n].k,
                                 v |-> [high |-> 0, medium |-> 0, low |-> 0]]],
                            LAMBDA e : ~DictHas(data.confidence_trends, e.k))]

\* What a renderer call leaves of the snapshot it was given.  Every renderer
\* reads data[...] and builds lists and dicts of its own: print_summary
\* counts into a new Counter, print_issues sorts the lists of by_type, which
\* it filled by append, generate_html_report sorts with sorted(), a copy,
\* export_json builds {**issue, ...} and dict(...); confidence_trends is
\* only iterated with items(), never indexed.
SnapshotAfter(call, data) == data

\* print_summary(data) on the returned snapshot.
CallPrintSummary ==
    /\ analysis.pc = "returned"
    /\ render' = PrintSummary(analysis.data)
    /\ analysis' = [analysis EXCEPT !.data = SnapshotAfter("print_summary", @)]
    /\ UNCHANGED <<parser, classifier, extractor, disk, corpus, proc>>

\* export_json(data) on the returned snapshot.
CallExportJson ==
    /\ analysis.pc = "returned"
    /\ render' = ExportJson(analysis.data, disk).render
    /\ disk' = ExportJson(analysis.data, disk).disk
    /\ analysis' = [analysis EXCEPT !.data = SnapshotAfter("export_json", @)]
    /\ UNCHANGED <<parser, classifier, extractor, corpus, proc>>

\* print_timeline(data) on the returned snapshot.
CallPrintTimeline ==
    /\ analysis.pc = "returned"
    /\ render' = PrintTimeline(analysis.data)
    /\ analysis' = [analysis EXCEPT !.data = SnapshotAfter("print_timeline", @)]
    /\ UNCHANGED <<parser, classifier, extractor, disk, corpus, proc>>

\* print_confidence(data) on the returned snapshot.
CallPrintConfidence ==
    /\ analysis.pc = "returned"
    /\ render' = PrintConfidence(analysis.data)
    /\ analysis' = [analysis EXCEPT !.data = SnapshotAfter("print_confidence", @)]
    /\ UNCHANGED <<parser, classifier, extractor, disk, corpus, proc>>

\* print_issues(data) on the returned snapshot.
CallPrintIssues ==
    /\ analysis.pc = "returned"
    /\ render' = PrintIssues(analysis.data)
    /\ analysis' = [analysis EXCEPT !.data = SnapshotAfter("print_issues", @)]
    /\ UNCHANGED <<parser, classifier, extractor, disk, corpus, proc>>

\* generate_html_report(data) on the returned snapshot, at some wall-clock
\* time.
CallHtmlReport ==
    /\ analysis.pc = "returned"
    /\ \E now \in Clock :
          /\ render' = GenerateHtmlReport(analysis.data, disk, now).render
          /\ disk' = GenerateHtmlReport(analysis.data, disk, now).disk
    /\ analysis' = [analysis EXCEPT !.data = SnapshotAfter("generate_html_report", @)]
    /\ UNCHANGED <<parser, classifier, extractor, corpus, proc>>

LibNext == AnalyzeStep \/ AnalyzeReturn \/ CallPrintSummary \/ CallExportJson

SpecLib == LibInit /\ [][LibNext]_vars

\* The snapshot being built, and the documents folded into it so far.
Data == analysis.data

AnalysisRuns == analysis.pc \in {"fold", "returned"}

Returned == analysis.pc = "returned"

DocsWith(h) == {n \in 1..Len(Data.handoffs) : DictHas(Data.handoffs[n].sections, h)}

AllHeadings == UNION {DictKeys(Data.handoffs[n].sections) : n \in 1..Len(Data.handoffs)}

\* C3: for every heading h, sections_frequency[h] is the number of processed
\* documents whose sections mapping has key h (one increment per document
\* per heading, however often the heading occurs in it), never more than
\* total_handoffs; a heading of no document has no count.
C3_FrequencyCountsDocuments ==
    AnalysisRuns =>
        /\ DictKeys(Data.sections_frequency) = AllHeadings
        /\ \A h \in AllHeadings :
             /\ DictGet(Data.sections_frequency, h) = Cardinality(DocsWith(h))
             /\ DictGet(Data.sections_frequency, h) <= Data.total_handoffs

\* The fold has ended on two documents: "Notes" is in both (twice in one
\* of them) and counts 2, "What Could Go Wrong" is in one and counts 1.
C3_Witness ==
    /\ Returned
    /\ Data.total_handoffs = 2
    /\ Cardinality({n \in 1..2 : analysis.handoffs[n].content = DocRepeated}) = 1
    /\ DictGetOr(Data.sections_frequency, <<"N", "o", "t", "e", "s">>, 0) = 2
    /\ DictGetOr(Data.sections_frequency, WhatCouldGoWrong, 0) = 1

NoTrend == [high |-> 0, medium |-> 0, low |-> 0]

TrendSum(t) == t.high + t.medium + t.low

TrendsBounded(st) ==
    \A h \in DictKeys(st.data.confidence_trends) :
        TrendSum(DictGet(st.data.confidence_trends, h))
            <= DictGetOr(st.data.sections_frequency, h, 0)

\* What folding the document under the cursor adds for heading h: one to
\* the counter of its label, nothing when the label is unknown or the
\* document has no such section.
AddsOneLabel(before, after, h) ==
    LET secs  == ParseSections(before.handoffs[before.i].content)
        old   == DictGetOr(before.data.confidence_trends, h, NoTrend)
        new   == DictGetOr(after.data.confidence_trends, h, NoTrend)
        label == IF DictHas(secs, h)
                 THEN DictGet(ExtractConfidenceLevels(secs), h) ELSE "unknown"
    IN  /\ \A l \in {"high", "medium", "low"} :
              new[l] = old[l] + (IF l = label THEN 1 ELSE 0)
        /\ TrendSum(new) - TrendSum(old) \in {0, 1}
        /\ label = "unknown" => new = old

\* C4: for every heading h, high + medium + low of confidence_trends[h]
\* never exceeds sections_frequency[h]; each document adds at most one, to
\* exactly one of the three counters of h, and a document whose label for h
\* is unknown adds nothing.
C4_TrendsWithinFrequency ==
    /\ [](AnalysisRuns => TrendsBounded(analysis))
    /\ [][(analysis.pc = "fold" /\ analysis'.pc = "fold") =>
             \A h \in DictKeys(analysis'.data.sections_frequency) :
                 AddsOneLabel(analysis, analysis', h)]_vars

\* The fold has ended on two documents with "Notes": one labels it medium,
\* the other unknown, so its counters sum to 1 under a frequency of 2.
C4_Witness ==
    /\ Returned
    /\ DictGetOr(Data.sections_frequency, <<"N", "o", "t", "e", "s">>, 0) = 2
    /\ DictGetOr(Data.confidence_trends, <<"N", "o", "t", "e", "s">>, NoTrend)
           = [high |-> 0, medium |-> 1, low |-> 0]

\* C7: when analyze_handoffs has returned, time_span is None exactly when
\* total_handoffs is 0.
C7_TimeSpanAbsentIffEmpty ==
    Returned => ((Data.time_span = <<>>) <=> (Data.total_handoffs = 0))

\* analyze_handoffs has returned for a listing of one document, with a time
\* span.
C7_Witness ==
    /\ Returned
    /\ Data.total_handoffs = 1
    /\ Len(Data.handoffs) = 1
    /\ Data.time_span # <<>>

Printed(tag) == \E n \in 1..Len(render.out) : render.out[n][1] = tag

\* C8: print_summary never divides by zero: it raises nothing and returns
\* 0 with its last block printed, and the rate line is printed exactly when
\* time_span is present and duration_days > 0 (never for an empty listing
\* or a zero-day duration), with a divisor that is not 0.
C8_NoDivisionByZero ==
    render.call = "print_summary" =>
        /\ render.raised = "none"
        /\ render.ret = <<0>>
        /\ Printed("issues header")
        /\ Printed("frequency") <=>
               (Data.time_span # <<>> /\ Data.time_span[1].duration_days > 0)
        /\ \A n \in 1..Len(render.out) :
               render.out[n][1] = "frequency" => render.out[n][3] # 0
        /\ Data.total_handoffs = 0 => ~Printed("frequency")

\* print_summary has run on a snapshot of two documents modified half a day
\* apart: a time span of 0 days, no rate line.
C8_Witness ==
    /\ render.call = "print_summary"
    /\ Data.total_handoffs = 2
    /\ Data.time_span # <<>>
    /\ Data.time_span[1].start # Data.time_span[1].end
    /\ Data.time_span[1].duration_days = 0
    /\ Printed("duration")
    /\ ~Printed("frequency")

\* The exported file as read back.
ReRead == JsonLoads(DictGet(disk, JsonPath))

\* C9: the document export_json wrote, read back, has total_handoffs equal
\* to the snapshot's and an issues array as long as the snapshot's issues;
\* it has a time_span member only if the snapshot has a time span.
C9_JsonRoundTrip ==
    render.call = "export_json" =>
        /\ render.raised = "none"
        /\ render.ret = <<0>>
        /\ DictHas(disk, JsonPath)
        /\ ReRead.t = "dict"
        /\ DictGet(ReRead.v, "total_handoffs") = PyInt(Data.total_handoffs)
        /\ DictGet(ReRead.v, "issues").t = "list"
        /\ Len(DictGet(ReRead.v, "issues").v) = Len(Data.issues)
        /\ DictHas(ReRead.v, "time_span") => Data.time_span # <<>>

\* export_json has run on a snapshot of two documents with three issues
\* and a time span.
C9_Witness ==
    /\ render.call = "export_json"
    /\ Data.total_handoffs = 2
    /\ Len(Data.issues) = 3
    /\ DictHas(ReRead.v, "time_span")
    /\ Len(DictGet(ReRead.v, "issues").v) = 3

\* What one document contributes: its risks in line order, then its bugs in
\* line order, each with the document's file name and modification time.
DocumentIssues(file) ==
    LET secs  == ParseSections(file.content)
        wrong == SectionLines(secs, WhatCouldGoWrong)
        state == SectionLines(secs, CurrentSystemState)
        found == Expected(wrong, {i \in 1..Len(wrong) : Bulleted(wrong[i])}, "risk")
                 \o Expected(state, {i \in 1..Len(state) :
                                        HasKeyword(state[i]) /\ Bulleted(state[i])}, "bug")
    IN  [n \in 1..Len(found) |->
            [type |-> found[n].type, description |-> found[n].description,
             handoff |-> file.name, timestamp |-> file.mtime]]

RECURSIVE IssuesOfFirst(_, _)
IssuesOfFirst(files, n) ==
    IF n = 0 THEN <<>> ELSE IssuesOfFirst(files, n - 1) \o DocumentIssues(files[n])

\* C12: the snapshot's issues are the concatenation, in the order of the
\* listing (newest-modified first), of each processed document's issues, all
\* of its risks before all of its bugs and line order kept within each kind;
\* every issue carries its document's file name and modification time, so
\* the timestamps never increase along the sequence.
C12_IssuesInProcessingOrder ==
    AnalysisRuns =>
        /\ Data.issues = IssuesOfFirst(analysis.handoffs, analysis.i - 1)
        /\ \A a, b \in 1..Len(Data.issues) :
              a < b => Data.issues[a].timestamp >= Data.issues[b].timestamp

\* The fold has ended on two documents of different modification times: the
\* newer one, whose bug section precedes its risk section, gave two risks and
\* then a bug; the older one gave the fourth issue.
C12_Witness ==
    /\ Returned
    /\ Len(Data.issues) = 4
    /\ <<Data.issues[1].type, Data.issues[2].type, Data.issues[3].type>>
          = <<"risk", "risk", "bug">>
    /\ Data.issues[1].description # Data.issues[2].description
    /\ Data.issues[3].handoff = analysis.handoffs[1].name
    /\ Data.issues[4].handoff = analysis.handoffs[2].name
    /\ Data.issues[4].handoff # Data.issues[3].handoff
    /\ Data.issues[4].timestamp < Data.issues[3].timestamp
    /\ analysis.handoffs[1].content = DocRisks

\* The modification instants of the listing.
ModifiedAt == {analysis.handoffs[n].mtime : n \in 1..Len(analysis.handoffs)}

\* C13: for a non-empty corpus, time_span.start is the least and
\* time_span.end the greatest modification instant of the documents,
\* duration_days is the number of whole days that fit between them (the
\* floor), never negative, and 0 when all documents were modified on the
\* same calendar day.
C13_TimeSpanMinMaxFloor ==
    (Returned /\ analysis.handoffs # <<>>) =>
        /\ Data.time_span # <<>>
        /\ LET span == Data.time_span[1]
           IN  /\ span.start \in ModifiedAt
               /\ span.end \in ModifiedAt
               /\ \A t \in ModifiedAt : span.start <= t /\ t <= span.end
               /\ span.duration_days * SecondsPerDay <= span.end - span.start
               /\ span.end - span.start < (span.duration_days + 1) * SecondsPerDay
               /\ span.duration_days >= 0
               /\ (\A t \in ModifiedAt : DateOf(t) = DateOf(span.start))
                      => span.duration_days = 0

\* analyze_handoffs has returned for two documents modified on consecutive
\* calendar days, less than a day apart: the duration is 0 days.
C13_Witness ==
    /\ Returned
    /\ Len(analysis.handoffs) = 2
    /\ Data.time_span # <<>>
    /\ DateOf(Data.time_span[1].end) = DateOf(Data.time_span[1].start) + 1
    /\ Data.time_span[1].end - Data.time_span[1].start < SecondsPerDay
    /\ Data.time_span[1].duration_days = 0

(***************************************************************************)
(* Specification SpecRender: analyze_handoffs on listings of up to         *)
(* MaxCorpus documents, newest first, documents in pairs of equal          *)
(* modification time half a day apart, and then any sequence of renderer   *)
(* calls on the snapshot.  The documents are laid out in four ways: all    *)
(* wide; narrow and wide in turn; all wide but the oldest, narrow; all     *)
(* without a heading.                                                      *)
(***************************************************************************)
MaxCorpus == 21

\* Twelve sections: an identity whose first line has 60 characters, a risk
\* of 75 characters, a bug, and nine sections without a body.
DocWide ==
    Join(<< <<"#", "#", " ", "P", "r", "o", "j", "e", "c", "t", " ", "I", "d", "e", "n", "t", "i", "t", "y">>,
            <<"H", "a", "n", "d", "o", "f", "f", " ", "a", "n", "a", "l", "y", "t", "i", "c", "s", " ", "f", "o", "r", " ", "t", "h", "e", " ", "c", "o", "n", "t", "i", "n", "u", "a", "t", "i", "o", "n", " ", "d", "o", "c", "u", "m", "e", "n", "t", "s", " ", "o", "f", " ", "o", "n", "e", " ", "t", "e", "a", "m">>,
            <<"s", "e", "c", "o", "n", "d", " ", "l", "i", "n", "e">>,
            <<"#", "#", " ", "W", "h", "a", "t", " ", "C", "o", "u", "l", "d", " ", "G", "o", " ", "W", "r", "o", "n", "g">>,
            <<"-", " ", "T", "h", "e", " ", "e", "x", "p", "o", "r", "t", " ", "m", "a", "y", " ", "o", "v", "e", "r", "w", "r", "i", "t", "e", " ", "a", " ", "r", "e", "p", "o", "r", "t", " ", "t", "h", "a", "t", " ", "s", "o", "m", "e", "b", "o", "d", "y", " ", "e", "l", "s", "e", " ", "i", "s", " ", "s", "t", "i", "l", "l", " ", "r", "e", "a", "d", "i", "n", "g", " ", "t", "o", "d", "a", "y">>,
            <<"#", "#", " ", "C", "u", "r", "r", "e", "n", "t", " ", "S", "y", "s", "t", "e", "m", " ", "S", "t", "a", "t", "e">>,
            <<"-", " ", "e", "x", "p", "o", "r", "t", " ", "b", "u", "g">>,
            <<"#", "#", " ", "D">>,
            <<"#", "#", " ", "E">>,
            <<"#", "#", " ", "F">>,
            <<"#", "#", " ", "G">>,
            <<"#", "#", " ", "H">>,
            <<"#", "#", " ", "I">>,
            <<"#", "#", " ", "J">>,
            <<"#", "#", " ", "K">>,
            <<"#", "#", " ", "L">> >>, NL)

\* Four sections, L and K ahead of the others; the identity is empty.
DocNarrow ==
    Join(<< <<"#", "#", " ", "L">>,
            <<"#", "#", " ", "K">>,
            <<"#", "#", " ", "P", "r", "o", "j", "e", "c", "t", " ", "I", "d", "e", "n", "t", "i", "t", "y">>,
            <<"#", "#", " ", "W", "h", "a", "t", " ", "C", "o", "u", "l", "d", " ", "G", "o", " ", "W", "r", "o", "n", "g">>,
            <<"*", " ", "s", "h", "o", "r", "t", " ", "r", "i", "s", "k">> >>, NL)

Layouts == {"wide", "turns", "tail", "bare"}

\* The n-th of k documents, newest first.
LaidOut(layout, n, k) ==
    [name |-> FileName(n),
     mtime |-> ((k - n) \div 2) * HalfDay,
     content |-> CASE layout = "wide" -> DocWide
                   [] layout = "turns" -> IF n % 2 = 1 THEN DocNarrow ELSE DocWide
                   [] layout = "tail" -> IF n = k THEN DocNarrow ELSE DocWide
                   [] layout = "bare" -> DocBare]

LongListings ==
    {[n \in 1..k |-> LaidOut(layout, n, k)] : layout \in Layouts, k \in 0..MaxCorpus}

RenderInit ==
    /\ analysis \in {AnalyzeStart(SortNewestFirst(fs)) : fs \in LongListings}
    /\ render = NoCall
    /\ disk = <<>>
    /\ corpus = Idle
    /\ proc = Idle
    /\ parser = Idle
    /\ classifier = Idle
    /\ extractor = Idle

RenderNext ==
    \/ AnalyzeStep
    \/ AnalyzeReturn
    \/ CallPrintSummary
    \/ CallPrintTimeline
    \/ CallPrintConfidence
    \/ CallPrintIssues
    \/ CallExportJson
    \/ CallHtmlReport

SpecRender == RenderInit /\ [][RenderNext]_vars

LinesOf(tag) == SelectSeq(render.out, LAMBDA l : l[1] = tag)

\* Heading a was seen before heading b during the aggregation: its first
\* document comes earlier in the listing, or it is the same document and a
\* comes first in it.
PlaceIn(sections, h) == CHOOSE i \in 1..Len(sections) : sections[i].k = h

SeenBefore(a, b) ==
    LET da == SetMin(DocsWith(a))
        db == SetMin(DocsWith(b))
    IN  \/ da < db
        \/ /\ da = db
           /\ PlaceIn(Data.handoffs[da].sections, a) < PlaceIn(Data.handoffs[db].sections, b)

\* Heading a ranks ahead of heading b: a higher count, or the same count
\* and seen first.
RanksAhead(a, b) ==
    \/ DictGet(Data.sections_frequency, a) > DictGet(Data.sections_frequency, b)
    \/ /\ DictGet(Data.sections_frequency, a) = DictGet(Data.sections_frequency, b)
       /\ SeenBefore(a, b)

\* C18: print_summary lists min(10, number of headings) sections, each with
\* its count; every listed section ranks ahead of those listed after it and
\* of every section left out, where a section ranks ahead of another by a
\* higher count or, at equal counts, by having been seen first.
C18_TopTenSections ==
    render.call = "print_summary" =>
        LET shown == LinesOf("section")
            keys  == DictKeys(Data.sections_frequency)
        IN  /\ Len(shown) <= 10
            /\ Len(shown) = IF Cardinality(keys) < 10 THEN Cardinality(keys) ELSE 10
            /\ \A n \in 1..Len(shown) :
                  /\ shown[n][2] \in keys
                  /\ shown[n][4] = DictGet(Data.sections_frequency, shown[n][2])
                  /\ \A m \in (n + 1)..Len(shown) : RanksAhead(shown[n][2], shown[m][2])
                  /\ \A h \in keys :
                        (\A m \in 1..Len(shown) : shown[m][2] # h)
                            => RanksAhead(shown[n][2], h)

\* print_summary has run on a snapshot of twelve headings: ten are listed,
\* the first with a higher count than the tenth, and a heading left out
\* has the count of the tenth.
C18_Witness ==
    /\ render.call = "print_summary"
    /\ Len(Data.sections_frequency) = 12
    /\ Len(LinesOf("section")) = 10
    /\ LinesOf("section")[1][4] > LinesOf("section")[10][4]
    /\ \E n \in 1..12 :
          /\ Data.sections_frequency[n].v = LinesOf("section")[10][4]
          /\ \A m \in 1..10 : LinesOf("section")[m][2] # Data.sections_frequency[n].k

\* The description the timeline shows for a parsed document: the first line
\* of its "Project Identity" section, cut after 50 characters, or the
\* placeholder when the section is absent or empty.
FirstLineOf(text) ==
    LET breaks == {i \in 1..Len(text) : text[i] = NL}
    IN  IF breaks = {} THEN text ELSE SubSeq(text, 1, SetMin(breaks) - 1)

ShownDescription(parsed) ==
    IF \/ ~DictHas(parsed.sections, ProjectIdentity)
       \/ DictGet(parsed.sections, ProjectIdentity) = <<>>
    THEN <<"N", "o", " ", "d", "e", "s", "c", "r", "i", "p", "t", "i", "o", "n">>
    ELSE LET first == FirstLineOf(DictGet(parsed.sections, ProjectIdentity))
         IN  IF Len(first) > 50 THEN SubSeq(first, 1, 50) ELSE first

\* C19: for a corpus of N documents print_timeline shows min(20, N)
\* entries, the first 20 of the corpus in its order, numbered from 1, each
\* with its document's modification minute and description; a remainder
\* line is printed if and only if N > 20, and it says N - 20.
C19_TimelineFirstTwenty ==
    render.call = "print_timeline" =>
        LET N     == Len(Data.handoffs)
            shown == LinesOf("entry")
        IN  /\ N = Data.total_handoffs
            /\ Len(shown) = IF N < 20 THEN N ELSE 20
            /\ \A n \in 1..Len(shown) :
                  shown[n] = <<"entry", n, Data.handoffs[n].modified \div 60,
                               ShownDescription(Data.handoffs[n])>>
            /\ (LinesOf("more") # <<>>) <=> (N > 20)
            /\ N > 20 => LinesOf("more") = <<<<"more", N - 20>>>>
            /\ render.ret = IF N = 0 THEN <<1>> ELSE <<0>>

\* print_timeline has run on 21 documents: 20 entries and a remainder of 1;
\* one description is the 50 leading characters of a longer first line,
\* another is the placeholder of a document whose identity section is empty.
C19_Witness ==
    /\ render.call = "print_timeline"
    /\ Len(Data.handoffs) = 21
    /\ Len(LinesOf("entry")) = 20
    /\ LinesOf("more") = <<<<"more", 1>>>>
    /\ \E n \in 1..20 :
          /\ Len(LinesOf("entry")[n][4]) = 50
          /\ Len(FirstLineOf(DictGet(Data.handoffs[n].sections, ProjectIdentity))) > 50
          /\ Len(Split(DictGet(Data.handoffs[n].sections, ProjectIdentity), NL)) > 1
    /\ \E n \in 1..20 :
          /\ DictHas(Data.handoffs[n].sections, ProjectIdentity)
          /\ LinesOf("entry")[n][4] = NoDescription

\* The issues of one kind in snapshot order, and the one that comes k-th
\* when they are put newest first, issues of equal timestamp in snapshot
\* order.
KindGroup(type) == SelectSeq(Data.issues, LAMBDA x : x.type = type)

KthNewest(type, k) ==
    LET group == KindGroup(type)
    IN  group[CHOOSE i \in 1..Len(group) :
                Cardinality({j \in 1..Len(group) :
                    \/ group[j].timestamp > group[i].timestamp
                    \/ (group[j].timestamp = group[i].timestamp /\ j < i)}) = k - 1]

\* The number of issues shown for a kind, and of lines printed for it: the
\* group line, the issues shown and the remainder line.
ShownOf(type) == IF Len(KindGroup(type)) < 10 THEN Len(KindGroup(type)) ELSE 10

GroupSize(type) ==
    IF KindGroup(type) = <<>> THEN 0
    ELSE 1 + ShownOf(type) + (IF Len(KindGroup(type)) > 10 THEN 1 ELSE 0)

\* The lines printed for a kind start at line g of the output.
GroupPrintedAt(type, g) ==
    /\ render.out[g] = <<"group", IF type = "risk" THEN "RISK" ELSE "BUG",
                         Len(KindGroup(type))>>
    /\ g + GroupSize(type) - 1 <= Len(render.out)
    /\ \A k \in 1..ShownOf(type) :
          LET issue == KthNewest(type, k)
          IN  render.out[g + k] =
                  <<"issue", issue.timestamp \div SecondsPerDay,
                    IF Len(issue.description) > 70
                    THEN SubSeq(issue.description, 1, 70) ELSE issue.description>>
    /\ Len(KindGroup(type)) > 10 =>
          render.out[g + 11] = <<"more", Len(KindGroup(type)) - 10>>

\* C20: print_issues prints, for every kind that has issues, one group: the
\* kind with the size of the group, then at most 10 of its issues, newest
\* first and issues of equal timestamp in snapshot order, each with its
\* description cut after 70 characters, then a remainder line if and only
\* if the group has more than 10 issues, saying size - 10; nothing else is
\* printed after the header.
C20_IssuesGroupedNewestFirst ==
    (render.call = "print_issues" /\ Data.issues # <<>>) =>
        /\ Len(render.out) = 1 + GroupSize("risk") + GroupSize("bug")
        /\ \A type \in {"risk", "bug"} :
              KindGroup(type) # <<>> =>
                  \E g \in 2..Len(render.out) : GroupPrintedAt(type, g)
        /\ Len(LinesOf("more")) =
               Cardinality({type \in {"risk", "bug"} : Len(KindGroup(type)) > 10})

\* print_issues has run on a snapshot with 21 risks and 10 bugs: 10 risks
\* are shown, of more than one timestamp and two of them of the same one,
\* one with a description cut to 70 characters, with a remainder of 11; the
\* 10 bugs are shown without a remainder line.
C20_Witness ==
    /\ render.call = "print_issues"
    /\ Len(KindGroup("risk")) = 21
    /\ Len(KindGroup("bug")) = 10
    /\ LinesOf("more") = <<<<"more", 11>>>>
    /\ Len(LinesOf("issue")) = 20
    /\ \E k \in 1..9 : KthNewest("risk", k).timestamp = KthNewest("risk", k + 1).timestamp
    /\ KthNewest("risk", 1).timestamp > KthNewest("risk", 10).timestamp
    /\ \E k \in 1..10 :
          /\ Len(KthNewest("risk", k).description) > 70
          /\ \E n \in 1..Len(render.out) :
                /\ render.out[n][1] = "issue"
                /\ render.out[n][3] = SubSeq(KthNewest("risk", k).description, 1, 70)

(***************************************************************************)
(* Specification Spec: main on every resolved directory (absent, or with   *)
(* at most MaxDocs entries: documents from MainDocPool modified at day 0   *)
(* or day 1, files of another name, subdirectories of a matching name),    *)
(* with every command and every export flag.                               *)
(***************************************************************************)
MainDocPool == {DocRisks, DocBare}

Commands == {"none", "summary", "timeline", "confidence", "issues", "report"}

Exports == {"none", "json", "html"}

EntryKinds ==
    {[matches |-> TRUE, regular |-> TRUE, mtime |-> t, content |-> c] :
        t \in {0, SecondsPerDay}, c \in MainDocPool}
    \cup {[matches |-> FALSE, regular |-> TRUE, mtime |-> 0, content |-> DocRisks],
          [matches |-> TRUE, regular |-> FALSE, mtime |-> 0, content |-> <<>>]}

DigitChars == <<"0", "1", "2", "3", "4", "5", "6", "7", "8", "9">>

\* AI_Continuation_Document-<n>.md and notes-<n>.md, for n up to 9.
DocumentName(n) == GlobPrefix \o <<DigitChars[n + 1]>> \o GlobSuffix

OtherName(n) == <<"n", "o", "t", "e", "s", "-", DigitChars[n + 1]>> \o GlobSuffix

Directories ==
    {[exists |-> FALSE, entries |-> <<>>]}
    \cup UNION {{[exists |-> TRUE,
                  entries |-> [n \in 1..k |->
                      [name |-> IF f[n].matches THEN DocumentName(n) ELSE OtherName(n),
                       regular |-> f[n].regular, mtime |-> f[n].mtime,
                       content |-> f[n].content, children |-> <<>>]]] :
                    f \in [1..k -> EntryKinds]} : k \in 0..MaxDocs}

Init ==
    /\ corpus \in Directories
    /\ proc \in {[pc |-> "start", command |-> c, export |-> e, handoffs |-> <<>>,
                  out |-> <<>>, exit |-> <<>>, raised |-> "none"] :
                    c \in Commands, e \in Exports}
    /\ analysis = Idle
    /\ render = NoCall
    /\ disk = <<>>
    /\ parser = Idle
    /\ classifier = Idle
    /\ extractor = Idle

\* handoffs = list_handoffs()
MainList ==
    /\ proc.pc = "start"
    /\ proc' = [proc EXCEPT !.handoffs = ListHandoffs(corpus), !.pc = "listed"]
    /\ UNCHANGED <<parser, classifier, extractor, analysis, render, disk, corpus>>

\* if not handoffs: the two messages, return 1
MainNoDocuments ==
    /\ proc.pc = "listed"
    /\ NoDocuments(proc.handoffs)
    /\ proc' = [proc EXCEPT !.out = <<"No handoff documents found.",
                                      "Create one with: /handoff">>,
                            !.exit = <<1>>, !.pc = "exit"]
    /\ UNCHANGED <<parser, classifier, extractor, analysis, render, disk, corpus>>

\* data = analyze_handoffs(handoffs): the call
MainAnalyze ==
    /\ proc.pc = "listed"
    /\ ~NoDocuments(proc.handoffs)
    /\ analysis' = AnalyzeStart(proc.handoffs)
    /\ proc' = [proc EXCEPT !.pc = "analyze"]
    /\ UNCHANGED <<parser, classifier, extractor, render, disk, corpus>>

Analyzed == proc.pc = "analyze" /\ analysis.pc = "returned"

\* if args.export == 'json': return export_json(data)
MainExportJson ==
    /\ Analyzed
    /\ proc.export = "json"
    /\ render' = ExportJson(analysis.data, disk).render
    /\ disk' = ExportJson(analysis.data, disk).disk
    /\ proc' = [proc EXCEPT !.exit = ExitOf(render'), !.raised = render'.raised,
                            !.pc = "exit"]
    /\ UNCHANGED <<parser, classifier, extractor, analysis, corpus>>

\* elif args.export == 'html': return generate_html_report(data), and the
\* 'report' command
MainHtmlReport ==
    /\ Analyzed
    /\ \/ proc.export = "html"
       \/ proc.export = "none" /\ proc.command = "report"
    /\ \E now \in Clock :
          /\ render' = GenerateHtmlReport(analysis.data, disk, now).render
          /\ disk' = GenerateHtmlReport(analysis.data, disk, now).disk
    /\ proc' = [proc EXCEPT !.exit = ExitOf(render'), !.raised = render'.raised,
                            !.pc = "exit"]
    /\ UNCHANGED <<parser, classifier, extractor, analysis, corpus>>

\* if not args.command: return print_summary(data); else the handler of
\* the command.  argparse admits no command outside the table, so the
\* closing "return 1" is never reached.
MainCommand ==
    /\ Analyzed
    /\ proc.export = "none"
    /\ proc.command # "report"
    /\ render' = CommandCall(proc.command, analysis.data)
    /\ proc' = [proc EXCEPT !.exit = ExitOf(render'), !.raised = render'.raised,
                            !.pc = "exit"]
    /\ UNCHANGED <<parser, classifier, extractor, analysis, disk, corpus>>

Next ==
    \/ MainList
    \/ MainNoDocuments
    \/ MainAnalyze
    \/ AnalyzeStep
    \/ AnalyzeReturn
    \/ MainExportJson
    \/ MainHtmlReport
    \/ MainCommand

Spec == Init /\ [][Next]_vars

\* The corpus is empty: no directory, or no regular file of a matching name.
EmptyCorpus ==
    \/ ~corpus.exists
    \/ \A n \in 1..Len(corpus.entries) :
          ~(GlobMatches(corpus.entries[n].name) /\ corpus.entries[n].regular)

\* C10: with an empty corpus, whatever the command and the export flag,
\* main never reaches the analysis, a renderer or an export (no file is
\* written), and it ends by printing the "no documents found" message and
\* returning 1 without an exception.
C10_EmptyCorpusExitsOne ==
    EmptyCorpus =>
        /\ analysis = Idle
        /\ render = NoCall
        /\ disk = <<>>
        /\ proc.pc \in {"start", "listed", "exit"}
        /\ proc.pc = "exit" =>
              /\ proc.exit = <<1>>
              /\ proc.raised = "none"
              /\ proc.out = <<"No handoff documents found.", "Create one with: /handoff">>

\* main has ended with 1 on a directory that exists and holds only a file
\* of another name and a subdirectory of a matching name, under --export.
C10_Witness ==
    /\ proc.pc = "exit"
    /\ proc.exit = <<1>>
    /\ proc.export = "json"
    /\ corpus.exists
    /\ Len(corpus.entries) = 2
    /\ \E n \in 1..2 : ~GlobMatches(corpus.entries[n].name)
    /\ \E n \in 1..2 : ~corpus.entries[n].regular
    /\ disk = <<>>

\* What the claim calls "nothing to show", per console command, read off the
\* snapshot: no document for the timeline, no section labelled high, medium
\* or low for the confidence view, no issue for the issues view; the summary
\* always has its totals.
NothingToShow(command, data) ==
    CASE command = "timeline" -> data.handoffs = <<>>
      [] command = "confidence" ->
            \A n \in 1..Len(data.handoffs) :
                \A h \in DictKeys(data.handoffs[n].sections) :
                    ConfidenceLabel(DictGet(data.handoffs[n].sections, h)) = "unknown"
      [] command = "issues" ->
            \A n \in 1..Len(data.handoffs) :
                ExtractIssues(data.handoffs[n].sections) = <<>>
      [] OTHER -> FALSE

ConsoleCommand == proc.export = "none" /\ proc.command # "report"

\* C11: when main has ended, its exit code is 1 exactly when no documents
\* were found or the selected console command (summary, timeline,
\* confidence, issues) had nothing to show, and 0 otherwise.
C11_ExitOneIffNothingToShow ==
    proc.pc = "exit" =>
        /\ proc.exit \in {<<0>>, <<1>>}
        /\ (proc.exit = <<1>>) <=>
              \/ NoDocuments(proc.handoffs)
              \/ (ConsoleCommand /\ NothingToShow(proc.command, analysis.data))

\* The same statement with the issues command left out: what the other
\* commands and the exports do.
C11_ExceptIssues ==
    (proc.pc = "exit" /\ proc.command # "issues") => C11_ExitOneIffNothingToShow

(***************************************************************************)
(* find_handoff_directory and list_handoffs on a file system.  The start   *)
(* directory has MaxDepth ancestors; slots[k + 1] says what                *)
(* <k-th ancestor>/docs/handoffs is ("absent", "file" or "dir", k = 0 for  *)
(* the start directory itself), cwd says what docs/handoffs is when it is  *)
(* resolved against the working directory, and every docs/handoffs that is *)
(* a directory holds the same entries.  A path is [base, up]: docs/handoffs *)
(* under the up-th ancestor of the start directory, or relative ("cwd").   *)
(***************************************************************************)
MaxDepth == 2

\* DEFAULT_HANDOFF_DIR: a relative path
DefaultHandoffDir == [base |-> "cwd", up |-> 0]

\* parent / DEFAULT_HANDOFF_DIR for the k-th of [start_dir, *start_dir.parents]
CheckPath(k) == [base |-> "start", up |-> k]

\* Path.exists(): true of a directory and of a file alike
PathExists(fs, path) ==
    (IF path.base = "cwd" THEN fs.cwd ELSE fs.slots[path.up + 1]) # "absent"

\* What list_handoffs sees at a path: whether it exists, and the entries
\* glob yields there (none unless it is a directory).
DirectoryAt(fs, path) ==
    [exists |-> PathExists(fs, path),
     entries |-> IF (IF path.base = "cwd" THEN fs.cwd ELSE fs.slots[path.up + 1]) = "dir"
                 THEN fs.entries ELSE <<>>]

\* current_handoff = start_dir / DEFAULT_HANDOFF_DIR; if it exists, return it
FindCurrent ==
    /\ proc.pc = "find"
    /\ proc' = IF PathExists(corpus, CheckPath(0))
               THEN [proc EXCEPT !.result = <<CheckPath(0)>>, !.pc = "found"]
               ELSE [proc EXCEPT !.pc = "parents", !.k = 0]
    /\ UNCHANGED <<parser, classifier, extractor, analysis, render, disk, corpus>>

\* One iteration of "for parent in [start_dir, *start_dir.parents]".
FindAncestor ==
    /\ proc.pc = "parents"
    /\ proc.k <= MaxDepth
    /\ proc' = IF PathExists(corpus, CheckPath(proc.k))
               THEN [proc EXCEPT !.result = <<CheckPath(proc.k)>>, !.pc = "found"]
               ELSE [proc EXCEPT !.k = proc.k + 1]
    /\ UNCHANGED <<parser, classifier, extractor, analysis, render, disk, corpus>>

\* return DEFAULT_HANDOFF_DIR
FindDefault ==
    /\ proc.pc = "parents"
    /\ proc.k > MaxDepth
    /\ proc' = [proc EXCEPT !.result = <<DefaultHandoffDir>>, !.pc = "found"]
    /\ UNCHANGED <<parser, classifier, extractor, analysis, render, disk, corpus>>

\* list_handoffs on the directory found.
ListResolved ==
    /\ proc.pc = "found"
    /\ proc' = [proc EXCEPT !.handoffs = ListHandoffs(DirectoryAt(corpus, proc.result[1])),
                            !.pc = "listed"]
    /\ UNCHANGED <<parser, classifier, extractor, analysis, render, disk, corpus>>

(***************************************************************************)
(* Specification SpecList: find_handoff_directory, then list_handoffs, on  *)
(* every file system of MaxDepth ancestors whose handoff directories hold  *)
(* at most MaxDocs entries: documents of two modification times, names     *)
(* that miss the pattern at either end, a name whose star part is empty or *)
(* x's, a subdirectory of a matching name, and a subdirectory that holds a *)
(* document.  The start directory is the working directory (the call       *)
(* list_handoffs makes) or another one.                                    *)
(***************************************************************************)
EntryShapes ==
    {[shape |-> "doc", mtime |-> t] : t \in {0, SecondsPerDay}}
    \cup {[shape |-> x, mtime |-> HalfDay] : x \in {"notes", "txt", "star", "dir", "sub"}}

EntryOf(shape, n) ==
    [name |-> CASE shape.shape \in {"doc", "dir"} -> DocumentName(n)
                [] shape.shape = "notes" -> OtherName(n)
                [] shape.shape = "txt" ->
                      GlobPrefix \o <<DigitChars[n + 1], ".", "t", "x", "t">>
                [] shape.shape = "star" ->
                      GlobPrefix \o [i \in 1..(n - 1) |-> "x"] \o GlobSuffix
                [] shape.shape = "sub" -> <<"s", "u", "b", DigitChars[n + 1]>>,
     regular |-> shape.shape \notin {"dir", "sub"},
     mtime |-> shape.mtime,
     content |-> IF shape.shape \in {"dir", "sub"} THEN <<>> ELSE DocBare,
     children |-> IF shape.shape = "sub" THEN <<DocumentName(n)>> ELSE <<>>]

\* The kinds of path at docs/handoffs under the start directory and under
\* each of its ancestors.
SlotMaps == [1..(MaxDepth + 1) -> {"absent", "file", "dir"}]

\* The file system the process starts in: the start directory is the working
\* directory, or it is another directory and the working directory has its
\* own docs/handoffs or none; the directory found holds up to MaxDocs
\* entries of any shape.
ListInit ==
    /\ \E sl \in SlotMaps, here \in BOOLEAN, c \in {"absent", "dir"}, k \in 0..MaxDocs :
         \E f \in [1..k -> EntryShapes] :
            corpus = [slots |-> sl,
                      start_is_cwd |-> here,
                      cwd |-> IF here THEN sl[1] ELSE c,
                      entries |-> [n \in 1..k |-> EntryOf(f[n], n)]]
    /\ proc = [pc |-> "find", k |-> 0, result |-> <<>>, handoffs |-> <<>>]
    /\ analysis = Idle
    /\ render = NoCall
    /\ disk = <<>>
    /\ parser = Idle
    /\ classifier = Idle
    /\ extractor = Idle

ListNext == FindCurrent \/ FindAncestor \/ FindDefault \/ ListResolved

SpecList == ListInit /\ [][ListNext]_vars

\* The levels, start directory first, at which docs/handoffs is of one of
\* the given kinds.
LevelsOf(kinds) == {k \in 0..MaxDepth : corpus.slots[k + 1] \in kinds}

Found == proc.pc \in {"found", "listed"}

\* C15: find_handoff_directory returns docs/handoffs of the nearest level,
\* the start directory first and the root last, at which it is an existing
\* directory; when it is one at no level, the result is the unresolved
\* default path, which does not exist for the caller, and list_handoffs on
\* it yields the empty listing.
C15_NearestExistingDirectory ==
    Found =>
        /\ LevelsOf({"dir"}) # {} =>
              proc.result = <<CheckPath(SetMin(LevelsOf({"dir"})))>>
        /\ LevelsOf({"dir"}) = {} =>
              /\ proc.result = <<DefaultHandoffDir>>
              /\ ~PathExists(corpus, DefaultHandoffDir)
              /\ proc.pc = "listed" => proc.handoffs = <<>>

\* What holds instead: the result is the nearest level at which
\* docs/handoffs exists, as a directory or as a file; when there is none it
\* is the default path, and that one does not exist when the start
\* directory is the working directory.
C15_NearestExistingPath ==
    Found =>
        /\ LevelsOf({"dir", "file"}) # {} =>
              proc.result = <<CheckPath(SetMin(LevelsOf({"dir", "file"})))>>
        /\ LevelsOf({"dir", "file"}) = {} =>
              /\ proc.result = <<DefaultHandoffDir>>
              /\ corpus.start_is_cwd =>
                    /\ ~PathExists(corpus, DefaultHandoffDir)
                    /\ proc.pc = "listed" => proc.handoffs = <<>>

\* A name is AI_Continuation_Document-, then any characters, then .md.
NameFits(name) ==
    \E k \in 0..(Len(name) - Len(GlobPrefix) - Len(GlobSuffix)) :
        name = GlobPrefix \o SubSeq(name, Len(GlobPrefix) + 1, Len(GlobPrefix) + k)
                   \o GlobSuffix

\* The directory list_handoffs was given, and its entries that are regular
\* files of a fitting name.
Resolved == DirectoryAt(corpus, proc.result[1])

Documents ==
    {n \in 1..Len(Resolved.entries) :
        Resolved.entries[n].regular /\ NameFits(Resolved.entries[n].name)}

\* C16: the listing holds exactly the regular files directly inside the
\* resolved directory whose name fits AI_Continuation_Document-*.md, each
\* once (nothing from inside a subdirectory, no entry of another name, no
\* entry that is not a regular file), and of any two adjacent entries the
\* earlier one is not older than the later one.
C16_MatchingFilesNewestFirst ==
    proc.pc = "listed" =>
        /\ Len(proc.handoffs) = Cardinality(Documents)
        /\ \A n \in Documents : \E i \in 1..Len(proc.handoffs) :
              /\ proc.handoffs[i].name = Resolved.entries[n].name
              /\ proc.handoffs[i].mtime = Resolved.entries[n].mtime
        /\ \A i \in 1..Len(proc.handoffs) :
              /\ \E n \in Documents : proc.handoffs[i].name = Resolved.entries[n].name
              /\ \A n \in 1..Len(Resolved.entries) :
                    \A c \in 1..Len(Resolved.entries[n].children) :
                        proc.handoffs[i].name # Resolved.entries[n].children[c]
        /\ \A i \in 1..(Len(proc.handoffs) - 1) :
              proc.handoffs[i].mtime >= proc.handoffs[i + 1].mtime

\* A directory whose two entries are documents, the older one first in
\* glob's order, has been listed: the newer one comes first.
C16_Witness ==
    /\ proc.pc = "listed"
    /\ Len(Resolved.entries) = 2
    /\ Len(proc.handoffs) = 2
    /\ Resolved.entries[1].mtime < Resolved.entries[2].mtime
    /\ proc.handoffs[1].name = Resolved.entries[2].name
    /\ proc.handoffs[2].name = Resolved.entries[1].name

\* A directory that holds a subdirectory of a fitting name and a
\* subdirectory with a document inside has been listed: nothing came out.
C16_SubdirectoriesSkipped ==
    /\ proc.pc = "listed"
    /\ Len(Resolved.entries) = 2
    /\ \E n \in 1..2 : ~Resolved.entries[n].regular /\ NameFits(Resolved.entries[n].name)
    /\ \E n \in 1..2 : Resolved.entries[n].children # <<>>
    /\ proc.handoffs = <<>>

(***************************************************************************)
(* Specification SpecFault: main where the file system refuses a read or   *)
(* a write.  The directory's faults give, per document name, the exception *)
(* of filepath.read_text() (PermissionError when the file cannot be        *)
(* opened, UnicodeDecodeError when its bytes are not text); its target     *)
(* gives the exception of output_path.write_text() when the export file    *)
(* cannot be opened for writing (PermissionError, or IsADirectoryError     *)
(* when a directory of that name is in the way), in which case nothing is  *)
(* written.  No function of analytics.py holds a try statement, so an      *)
(* exception leaves main: the interpreter prints the traceback, which      *)
(* ends with the exception's name and message, to the standard error       *)
(* stream, and sys.exit is not reached; the process ends with 1.  The      *)
(* process record has the field err for that stream next to out.           *)
(***************************************************************************)
ReadFaults == {"PermissionError", "UnicodeDecodeError"}

WriteFaults == {"PermissionError", "IsADirectoryError"}

\* content = filepath.read_text(): the exception it raises on this file,
\* "none" when the text is read.
ReadRaises(fs, file) == DictGetOr(fs.faults, file.name, "none")

\* The iteration as it would be with the unreadable document skipped.
AnalyzeDocumentSkipping(st, fs) ==
    IF ReadRaises(fs, st.handoffs[st.i]) = "none"
    THEN AnalyzeDocument(st)
    ELSE [st EXCEPT !.i = st.i + 1]

\* One iteration of "for handoff in handoffs" on a file system with
\* faults: parse_handoff raises at its first statement and the exception
\* leaves analyze_handoffs, whose locals are lost with its frame.
AnalyzeDocumentReading(st, fs) ==
    IF ReadRaises(fs, st.handoffs[st.i]) = "none"
    THEN AnalyzeDocument(st)
    ELSE [st EXCEPT !.pc = "raised"]

\* What the interpreter prints for an exception nobody caught.
Traceback(error) == << <<"Traceback (most recent call last):">>, <<error>> >>

\* main left by an exception.
Uncaught(p, error) ==
    [p EXCEPT !.err = Traceback(error), !.exit = <<1>>, !.raised = error, !.pc = "exit"]

\* main left by the return of a renderer, or by its exception.
EndOf(p, call) ==
    IF call.raised # "none" THEN Uncaught(p, call.raised)
    ELSE [p EXCEPT !.exit = call.ret, !.pc = "exit"]

\* export_json(data) on a target that may refuse the write: write_text
\* raises before the print, and the statements after it are not run.
ExportJsonWriting(data, files, fs) ==
    IF Serializable(ExportData(data)) /\ fs.target # "none"
    THEN [render |-> [call |-> "export_json", out |-> <<>>,
                      ret |-> <<>>, raised |-> fs.target],
          disk |-> files]
    ELSE ExportJson(data, files)

\* generate_html_report(data) on a target that may refuse the write.
GenerateHtmlReportWriting(data, files, now, fs) ==
    IF fs.target # "none"
    THEN [render |-> [call |-> "generate_html_report", out |-> <<>>,
                      ret |-> <<>>, raised |-> fs.target],
          disk |-> files]
    ELSE GenerateHtmlReport(data, files, now)

\* The documents of the directory: matching regular files modified at day 0
\* or day 1, readable or not.
FaultShapes ==
    {[mtime |-> t, content |-> c, fault |-> f] :
        t \in {0, SecondsPerDay}, c \in {DocBare}, f \in ReadFaults \cup {"none"}}

FaultCalls ==
    {[command |-> "none", export |-> "json"], [command |-> "none", export |-> "html"],
     [command |-> "report", export |-> "none"], [command |-> "issues", export |-> "json"],
     [command |-> "none", export |-> "none"], [command |-> "timeline", export |-> "none"]}

FaultInit ==
    /\ \E k \in 0..MaxDocs, t \in WriteFaults \cup {"none"} :
         \E f \in [1..k -> FaultShapes] :
            corpus = [exists |-> TRUE,
                      entries |-> [n \in 1..k |->
                          [name |-> DocumentName(n), regular |-> TRUE,
                           mtime |-> f[n].mtime, content |-> f[n].content,
                           children |-> <<>>]],
                      faults |-> [n \in 1..k |-> [k |-> DocumentName(n), v |-> f[n].fault]],
                      target |-> t]
    /\ \E c \in FaultCalls :
          proc = [pc |-> "start", command |-> c.command, export |-> c.export,
                  handoffs |-> <<>>, out |-> <<>>, err |-> <<>>, exit |-> <<>>,
                  raised |-> "none"]
    /\ analysis = Idle
    /\ render = NoCall
    /\ disk = <<>>
    /\ parser = Idle
    /\ classifier = Idle
    /\ extractor = Idle

\* parsed = parse_handoff(handoff) and the rest of the iteration; or the
\* exception of read_text, which leaves analyze_handoffs and main.
AnalyzeStepReading ==
    /\ proc.pc = "analyze"
    /\ analysis.pc = "fold"
    /\ analysis.i <= Len(analysis.handoffs)
    /\ analysis' = AnalyzeDocumentReading(analysis, corpus)
    /\ proc' = IF analysis'.pc = "raised"
               THEN Uncaught(proc, ReadRaises(corpus, analysis.handoffs[analysis.i]))
               ELSE proc
    /\ UNCHANGED <<parser, classifier, extractor, render, disk, corpus>>

\* if args.export == 'json': return export_json(data)
MainExportJsonWriting ==
    /\ Analyzed
    /\ proc.export = "json"
    /\ render' = ExportJsonWriting(analysis.data, disk, corpus).render
    /\ disk' = ExportJsonWriting(analysis.data, disk, corpus).disk
    /\ proc' = EndOf(proc, render')
    /\ UNCHANGED <<parser, classifier, extractor, analysis, corpus>>

\* elif args.export == 'html': return generate_html_report(data), and the
\* 'report' command
MainHtmlReportWriting ==
    /\ Analyzed
    /\ \/ proc.export = "html"
       \/ proc.export = "none" /\ proc.command = "report"
    /\ \E now \in Clock :
          /\ render' = GenerateHtmlReportWriting(analysis.data, disk, now, corpus).render
          /\ disk' = GenerateHtmlReportWriting(analysis.data, disk, now, corpus).disk
    /\ proc' = EndOf(proc, render')
    /\ UNCHANGED <<parser, classifier, extractor, analysis, corpus>>

\* The console commands write no file.
MainCommandConsole ==
    /\ Analyzed
    /\ proc.export = "none"
    /\ proc.command # "report"
    /\ render' = CommandCall(proc.command, analysis.data)
    /\ proc' = EndOf(proc, render')
    /\ UNCHANGED <<parser, classifier, extractor, analysis, disk, corpus>>

FaultNext ==
    \/ MainList
    \/ MainNoDocuments
    \/ MainAnalyze
    \/ AnalyzeStepReading
    \/ AnalyzeReturn
    \/ MainExportJsonWriting
    \/ MainHtmlReportWriting
    \/ MainCommandConsole

SpecFault == FaultInit /\ [][FaultNext]_vars

\* What the process has printed to the standard output stream: the lines
\* of main, then those of the renderer it called.
Stdout == proc.out \o render.out

\* The export was attempted and write_text refused it.
WriteFailed ==
    /\ proc.pc = "exit"
    /\ render.call \in {"export_json", "generate_html_report"}
    /\ render.raised \in WriteFaults

\* The success message of either export.
SuccessPrinted ==
    \E n \in 1..Len(render.out) : render.out[n][1] \in {"json saved", "html generated"}

\* C21: when the export target cannot be written, the run has printed a
\* diagnostic to the standard output stream (read in the weakest way: at
\* least one line is there), it has ended with a nonzero exit code, and the
\* success message was not printed.
C21_WriteFailureDiagnosticOnStdout ==
    WriteFailed =>
        /\ Stdout # <<>>
        /\ proc.exit # <<>> /\ proc.exit # <<0>>
        /\ ~SuccessPrinted

\* What the run does on a refused write: the exit code is 1, no success
\* message is printed and no file is written, but the only text naming the
\* cause is the interpreter's traceback on the standard error stream, and
\* the standard output stream stays empty.
C21_TracebackOnStderr ==
    WriteFailed =>
        /\ proc.exit = <<1>>
        /\ ~SuccessPrinted
        /\ disk = <<>>
        /\ Stdout = <<>>
        /\ proc.err = Traceback(corpus.target)
        /\ proc.raised = corpus.target

\* The export of two documents has been refused because a directory has
\* the name of the target.
C21_Witness ==
    /\ WriteFailed
    /\ render.call = "export_json"
    /\ corpus.target = "IsADirectoryError"
    /\ Len(analysis.data.handoffs) = 2

\* The place in the listing of the first document that cannot be read, 0
\* when all can.
FirstUnreadable ==
    LET bad == {n \in 1..Len(proc.handoffs) : ReadRaises(corpus, proc.handoffs[n]) # "none"}
    IN  IF bad = {} THEN 0 ELSE SetMin(bad)

\* C22: when a document of the listing cannot be read or decoded,
\* analyze_handoffs never returns a snapshot, only the documents ahead of
\* the first such document are ever parsed, no renderer runs and no file is
\* written; the run ends at that document, with its exception leaving main.
C22_ParseFailureHaltsRun ==
    (proc.pc \in {"analyze", "exit"} /\ FirstUnreadable > 0) =>
        /\ analysis.pc \in {"fold", "raised"}
        /\ Len(analysis.data.handoffs) < FirstUnreadable
        /\ render = NoCall
        /\ disk = <<>>
        /\ proc.pc = "exit" =>
              /\ analysis.pc = "raised"
              /\ Len(analysis.data.handoffs) = FirstUnreadable - 1
              /\ proc.raised = ReadRaises(corpus, proc.handoffs[FirstUnreadable])
              /\ proc.exit = <<1>>
              /\ Stdout = <<>>

\* A run with the JSON export has ended at the first of two documents,
\* which cannot be decoded, while the second one, which can be read, and
\* the writable target were never touched.
C22_Witness ==
    /\ proc.pc = "exit"
    /\ proc.export = "json"
    /\ corpus.target = "none"
    /\ Len(proc.handoffs) = 2
    /\ FirstUnreadable = 1
    /\ ReadRaises(corpus, proc.handoffs[1]) = "UnicodeDecodeError"
    /\ ReadRaises(corpus, proc.handoffs[2]) = "none"
    /\ analysis.data.handoffs = <<>>

\* A run has parsed its first document and has ended at the second one.
C22_HaltedMidway ==
    /\ proc.pc = "exit"
    /\ FirstUnreadable = 2
    /\ Len(analysis.data.handoffs) = 1
    /\ proc.raised = "PermissionError"

(***************************************************************************)
(* The configuration wizard (src/scripts/config_wizard.py): the menus,     *)
(* run_wizard, save_config and main.  A selection is <<>> for None and     *)
(* <<i>> for the index i; so are the answers run_wizard keeps.  The        *)
(* environment is [menu, unwritable, existing]: which menu run_tui_menu    *)
(* ends up using ("tui" when simple_term_menu is importable, "keys" for    *)
(* the fallback on a terminal, "input" for the fallback on numbered        *)
(* input), the scopes whose configuration file cannot be created, and the  *)
(* configuration files present at the start.  The process record keeps, in *)
(* asked, the prompts that returned with their selections, and in saves    *)
(* the number of calls of save_config.                                     *)
(***************************************************************************)
\* A character for which str.isdigit() is true and int() raises ValueError.
SuperscriptTwo == "U+00B2"

\* choice.isdigit()
IsDigit(s) ==
    /\ s # <<>>
    /\ \A n \in 1..Len(s) : s[n] \in SeqRange(DigitChars) \cup {SuperscriptTwo}

\* int(choice) of decimal digits
RECURSIVE IntOf(_)
IntOf(s) ==
    IF s = <<>> THEN 0
    ELSE 10 * IntOf(SubSeq(s, 1, Len(s) - 1))
            + (CHOOSE d \in 0..9 : DigitChars[d + 1] = s[Len(s)])

\* A menu that returned a selection, one that raised, one that is still open.
Selected(sel) == [done |-> TRUE, raised |-> "none", sel |-> sel, cursor |-> 0]

MenuRaised(error) == [done |-> TRUE, raised |-> error, sel |-> <<>>, cursor |-> 0]

StillOpen(cursor) == [done |-> FALSE, raised |-> "none", sel |-> <<>>, cursor |-> cursor]

\* The numbered input of run_fallback_menu: EOFError and KeyboardInterrupt
\* give None, and so does every answer that is not a number of an option;
\* int() is outside no try for ValueError.
NumberedChoice(answer, n) ==
    IF answer.interrupted THEN Selected(<<>>)
    ELSE LET choice == Strip(answer.text)
         IN  IF ~IsDigit(choice) THEN Selected(<<>>)
             ELSE IF \E k \in 1..Len(choice) : choice[k] = SuperscriptTwo
                  THEN MenuRaised("ValueError")
                  ELSE IF 1 <= IntOf(choice) /\ IntOf(choice) <= n
                       THEN Selected(<<IntOf(choice) - 1>>)
                       ELSE Selected(<<>>)

\* One pass of "while True" in run_fallback_menu on the key getch() read:
\* ETX is Ctrl+C, CR and LF are Enter, ESC[A and ESC[B the arrows.
KeyPress(cursor, key, n) ==
    CASE key \in {"q", "ETX"} -> Selected(<<>>)
      [] key \in {"CR", "LF"} -> Selected(<<cursor>>)
      [] key = "ESC[A" -> StillOpen(IF cursor - 1 > 0 THEN cursor - 1 ELSE 0)
      [] key = "ESC[B" -> StillOpen(IF cursor + 1 < n - 1 THEN cursor + 1 ELSE n - 1)
      [] IsDigit(<<key>>) ->
            IF key = SuperscriptTwo THEN MenuRaised("ValueError")
            ELSE IF 1 <= IntOf(<<key>>) /\ IntOf(<<key>>) <= n
                 THEN Selected(<<IntOf(<<key>>) - 1>>)
                 ELSE StillOpen(cursor)
      [] OTHER -> StillOpen(cursor)

\* What the user may type at the numbered input, and the keys of the
\* terminal.
Answers ==
    {[interrupted |-> TRUE, text |-> <<>>]}
    \cup {[interrupted |-> FALSE, text |-> t] :
            t \in {<<"1">>, <<"2">>, <<"3">>, <<"0">>, <<" ", "2", " ">>, <<"0", "1">>,
                   <<"q">>, <<>>, <<SuperscriptTwo>>}}

Keys == {"q", "ETX", "CR", "LF", "ESC[A", "ESC[B", "ESC[C", "1", "2", "3", "0", "x", SuperscriptTwo}

\* run_tui_menu(options, title) with n options: what the next input makes
\* of the open menu.  TerminalMenu.show() gives an index or None.
MenuOutcomes(menu, cursor, n) ==
    CASE menu = "tui" -> {Selected(<<>>)} \cup {Selected(<<i>>) : i \in 0..(n - 1)}
      [] menu = "input" -> {NumberedChoice(a, n) : a \in Answers}
      [] menu = "keys" -> {KeyPress(cursor, k, n) : k \in Keys}

\* return selection == 0, after "if selection is None: return False"
ConfigureNow(sel) == sel = <<0>>

\* "compact" if selection == 0 else "handoff", None for None
ContinuationMethod(sel) ==
    IF sel = <<>> THEN <<>> ELSE IF sel = <<0>> THEN <<"compact">> ELSE <<"handoff">>

\* The handoff mode as it would be with the default taken on a cancel.
HandoffModeOrDefault(sel) ==
    IF sel = <<>> THEN <<"clipboard">>
    ELSE IF sel = <<0>> THEN <<"clipboard">> ELSE <<"auto-paste">>

\* "clipboard" if selection == 0 else "auto-paste", None for None
HandoffMode(sel) ==
    IF sel = <<>> THEN <<>> ELSE IF sel = <<0>> THEN <<"clipboard">> ELSE <<"auto-paste">>

\* "project" if selection == 0 else "global", None for None
ConfigScope(sel) ==
    IF sel = <<>> THEN <<>> ELSE IF sel = <<0>> THEN <<"project">> ELSE <<"global">>

\* The config dict run_wizard builds.
ConfigOf(method, mode) ==
    PyDict(<<Member("continuationMethod", PyStr(method)),
             Member("handoffMode", PyStr(mode))>>)

\* The file save_config writes for a scope: the project's when the scope is
\* "project", the global one otherwise.
ConfigPath(scope) == IF scope = "project" THEN "project_config" ELSE "global_config"

\* save_config(config, scope): mkdir, open and json.dump; the exception it
\* raises and the files after it.
SaveConfig(config, scope, files, env) ==
    IF scope \in env.unwritable
    THEN [raised |-> "OSError", disk |-> files]
    ELSE [raised |-> "none", disk |-> DictSet(files, ConfigPath(scope), JsonDumps(config))]

\* The menu titles and the prompt each belongs to.
MenuTitle(prompt) ==
    CASE prompt = "update" -> "What would you like to do?"
      [] prompt = "configure" -> "Do you want to configure handoff-prompt now?"
      [] prompt = "method" -> "Choose continuation method:"
      [] prompt = "mode" -> "Choose resume prompt delivery:"
      [] prompt = "scope" -> "Save configuration globally or for this project only?"

Prompts == {"update", "configure", "method", "mode", "scope"}

\* The menu of a prompt has returned sel.
Answered(p, sel) == [p EXCEPT !.asked = Append(p.asked, [prompt |-> p.pc, sel |-> sel])]

\* The next menu opens, its cursor on the first option.
OpenMenu(p, prompt) == [p EXCEPT !.pc = prompt, !.cursor = 0]

\* run_wizard returns None after a message.
WizardReturnsNone(p, message) ==
    [p EXCEPT !.out = Append(p.out, message), !.ret = <<>>, !.pc = "returned"]

\* The selections the open menu can return now.
Decided ==
    {o \in MenuOutcomes(corpus.menu, proc.cursor, 2) : o.done /\ o.raised = "none"}

(***************************************************************************)
(* Specification SpecWizard: main of the wizard with every flag, every     *)
(* menu, every set of configuration files present at the start and every   *)
(* set of scopes that cannot be written.                                   *)
(***************************************************************************)
\* A configuration saved by an earlier run.
OldConfig == JsonDumps(ConfigOf("handoff", "auto-paste"))

Scopes == {"project", "global"}

Flags == {"none", "help", "version", "check"}

WizardInit ==
    /\ \E m \in {"tui", "input", "keys"}, u \in SUBSET Scopes, e \in SUBSET Scopes :
          /\ corpus = [menu |-> m, unwritable |-> u,
                       existing |-> (IF "project" \in e
                                     THEN <<Member(ConfigPath("project"), OldConfig)>>
                                     ELSE <<>>)
                                    \o (IF "global" \in e
                                        THEN <<Member(ConfigPath("global"), OldConfig)>>
                                        ELSE <<>>)]
          /\ disk = corpus.existing
    /\ \E f \in Flags :
          proc = [pc |-> "start", flag |-> f, cursor |-> 0, asked |-> <<>>,
                  method |-> <<>>, mode |-> <<>>, scope |-> <<>>, saves |-> 0,
                  ret |-> <<>>, out |-> <<>>, err |-> <<>>, exit |-> <<>>,
                  raised |-> "none"]
    /\ analysis = Idle
    /\ render = NoCall
    /\ parser = Idle
    /\ classifier = Idle
    /\ extractor = Idle

\* --help, --version, --check: the text, return 0 (lines 642-652)
WizardFlag ==
    /\ proc.pc = "start"
    /\ proc.flag # "none"
    /\ proc' = [proc EXCEPT !.out = <<proc.flag>>, !.exit = <<0>>, !.pc = "exit"]
    /\ UNCHANGED <<parser, classifier, extractor, analysis, render, disk, corpus>>

\* An existing configuration: main asks what to do (654-676).
WizardExisting ==
    /\ proc.pc = "start"
    /\ proc.flag = "none"
    /\ disk # <<>>
    /\ proc' = OpenMenu([proc EXCEPT !.out = <<"Existing configuration detected:">>],
                        "update")
    /\ UNCHANGED <<parser, classifier, extractor, analysis, render, disk, corpus>>

\* No configuration yet: run_wizard is called, show_welcome and the first
\* menu (471-474).
WizardFresh ==
    /\ proc.pc = "start"
    /\ proc.flag = "none"
    /\ disk = <<>>
    /\ proc' = OpenMenu([proc EXCEPT !.out = <<"handoff-prompt Configuration Wizard">>],
                        "configure")
    /\ UNCHANGED <<parser, classifier, extractor, analysis, render, disk, corpus>>

\* A key that moves the cursor or is ignored: the menu stays open.
MenuNavigate ==
    /\ proc.pc \in Prompts
    /\ \E o \in MenuOutcomes(corpus.menu, proc.cursor, 2) :
          /\ ~o.done
          /\ proc' = [proc EXCEPT !.cursor = o.cursor]
    /\ UNCHANGED <<parser, classifier, extractor, analysis, render, disk, corpus>>

\* int() raises ValueError inside the menu; nothing catches it, and it
\* leaves run_wizard and main.
MenuCrash ==
    /\ proc.pc \in Prompts
    /\ \E o \in MenuOutcomes(corpus.menu, proc.cursor, 2) :
          /\ o.raised # "none"
          /\ proc' = Uncaught(proc, o.raised)
    /\ UNCHANGED <<parser, classifier, extractor, analysis, render, disk, corpus>>

\* if selection is None or selection == 1: print("\nExiting."); return 0;
\* else run_wizard() (673-679)
MainUpdateChoice ==
    /\ proc.pc = "update"
    /\ \E o \in Decided :
          proc' = IF o.sel \in {<<>>, <<1>>}
                  THEN [Answered(proc, o.sel) EXCEPT
                            !.out = Append(proc.out, "Exiting."),
                            !.exit = <<0>>, !.pc = "exit"]
                  ELSE OpenMenu([Answered(proc, o.sel) EXCEPT
                            !.out = Append(proc.out, "handoff-prompt Configuration Wizard")],
                            "configure")
    /\ UNCHANGED <<parser, classifier, extractor, analysis, render, disk, corpus>>

\* if not ask_configure_now(): "Exiting without making changes." (474-476)
AskConfigureNow ==
    /\ proc.pc = "configure"
    /\ \E o \in Decided :
          proc' = IF ConfigureNow(o.sel)
                  THEN OpenMenu(Answered(proc, o.sel), "method")
                  ELSE WizardReturnsNone(Answered(proc, o.sel),
                                         "Exiting without making changes.")
    /\ UNCHANGED <<parser, classifier, extractor, analysis, render, disk, corpus>>

\* continuation_method = ask_continuation_method(); the handoff mode is
\* asked for only if it is "handoff", else it is "clipboard" (479-491)
AskContinuationMethod ==
    /\ proc.pc = "method"
    /\ \E o \in Decided :
          proc' = CASE ContinuationMethod(o.sel) = <<>> ->
                         WizardReturnsNone(Answered(proc, o.sel), "Configuration cancelled.")
                    [] ContinuationMethod(o.sel) = <<"handoff">> ->
                         OpenMenu([Answered(proc, o.sel) EXCEPT
                                      !.method = ContinuationMethod(o.sel),
                                      !.mode = <<"clipboard">>], "mode")
                    [] OTHER ->
                         OpenMenu([Answered(proc, o.sel) EXCEPT
                                      !.method = ContinuationMethod(o.sel),
                                      !.mode = <<"clipboard">>], "scope")
    /\ UNCHANGED <<parser, classifier, extractor, analysis, render, disk, corpus>>

\* handoff_mode = ask_handoff_mode(); None cancels (487-490)
AskHandoffMode ==
    /\ proc.pc = "mode"
    /\ \E o \in Decided :
          proc' = IF HandoffMode(o.sel) = <<>>
                  THEN WizardReturnsNone([Answered(proc, o.sel) EXCEPT !.mode = <<>>],
                                         "Configuration cancelled.")
                  ELSE OpenMenu([Answered(proc, o.sel) EXCEPT !.mode = HandoffMode(o.sel)],
                                "scope")
    /\ UNCHANGED <<parser, classifier, extractor, analysis, render, disk, corpus>>

\* scope = ask_config_scope(); None cancels (493-496)
AskConfigScope ==
    /\ proc.pc = "scope"
    /\ \E o \in Decided :
          proc' = IF ConfigScope(o.sel) = <<>>
                  THEN WizardReturnsNone(Answered(proc, o.sel), "Configuration cancelled.")
                  ELSE [Answered(proc, o.sel) EXCEPT !.scope = ConfigScope(o.sel),
                                                     !.pc = "save"]
    /\ UNCHANGED <<parser, classifier, extractor, analysis, render, disk, corpus>>

\* config = {...}; save_config(config, scope) in the try; the success text
\* and "return config", or "Error saving configuration" and None (498-528)
WizardSave ==
    /\ proc.pc = "save"
    /\ LET config == ConfigOf(proc.method[1], proc.mode[1])
           saved == SaveConfig(config, proc.scope[1], disk, corpus)
       IN  /\ disk' = saved.disk
           /\ proc' = IF saved.raised = "none"
                      THEN [proc EXCEPT
                               !.saves = proc.saves + 1,
                               !.out = Append(proc.out, "Configuration Saved Successfully!"),
                               !.ret = <<config>>, !.pc = "returned"]
                      ELSE [WizardReturnsNone(proc, "Error saving configuration")
                               EXCEPT !.saves = proc.saves + 1]
    /\ UNCHANGED <<parser, classifier, extractor, analysis, render, corpus>>

\* if config: return 0; else: return 1 (677-680)
WizardMainReturn ==
    /\ proc.pc = "returned"
    /\ proc' = [proc EXCEPT !.exit = IF proc.ret # <<>> THEN <<0>> ELSE <<1>>,
                            !.pc = "exit"]
    /\ UNCHANGED <<parser, classifier, extractor, analysis, render, disk, corpus>>

WizardNext ==
    \/ WizardFlag
    \/ WizardExisting
    \/ WizardFresh
    \/ MenuNavigate
    \/ MenuCrash
    \/ MainUpdateChoice
    \/ AskConfigureNow
    \/ AskContinuationMethod
    \/ AskHandoffMode
    \/ AskConfigScope
    \/ WizardSave
    \/ WizardMainReturn

SpecWizard == WizardInit /\ [][WizardNext]_vars

\* The prompts of run_wizard that have returned, in order: main's own
\* "update" prompt comes before run_wizard is called.
WizardAsked == SelectSeq(proc.asked, LAMBDA a : a.prompt # "update")

PromptsOf(asked) == [n \in 1..Len(asked) |-> asked[n].prompt]

\* A prompt of run_wizard was cancelled (its menu returned None) or
\* declined ("No, exit" at the first one).
CancelledOrDeclined ==
    \E n \in 1..Len(WizardAsked) :
        \/ WizardAsked[n].sel = <<>>
        \/ WizardAsked[n].prompt = "configure" /\ WizardAsked[n].sel # <<0>>

\* Every prompt on the path was answered: yes, a method, a mode when the
\* method is "handoff", a scope.
AllAnswered ==
    /\ ~CancelledOrDeclined
    /\ \/ /\ PromptsOf(WizardAsked) = <<"configure", "method", "scope">>
          /\ ContinuationMethod(WizardAsked[2].sel) = <<"compact">>
       \/ /\ PromptsOf(WizardAsked) = <<"configure", "method", "mode", "scope">>
          /\ ContinuationMethod(WizardAsked[2].sel) = <<"handoff">>

\* The configuration file of the chosen scope, read back.
SavedConfig == JsonLoads(DictGet(disk, ConfigPath(proc.scope[1])))

\* C23: save_config is called, and a configuration file changes, only after
\* every prompt on the path was answered; once a prompt of run_wizard is
\* cancelled or declined, save_config is never called, the configuration
\* files stay as they were, run_wizard returns None and the process ends
\* with 1; the handoff-mode prompt is asked only after "handoff" was chosen,
\* and a configuration saved for "compact" has handoffMode "clipboard".
C23_WizardSavesOnlyWhenAllAnswered ==
    /\ (proc.saves > 0 \/ disk # corpus.existing) => AllAnswered
    /\ proc.saves <= 1
    /\ CancelledOrDeclined =>
          /\ proc.saves = 0
          /\ disk = corpus.existing
          /\ proc.pc \in {"returned", "exit"}
          /\ proc.ret = <<>>
          /\ proc.raised = "none"
          /\ proc.pc = "exit" => proc.exit = <<1>>
    /\ (\E n \in 1..Len(WizardAsked) : WizardAsked[n].prompt = "mode") =>
          /\ Len(WizardAsked) >= 3
          /\ WizardAsked[2].prompt = "method"
          /\ ContinuationMethod(WizardAsked[2].sel) = <<"handoff">>
          /\ WizardAsked[3].prompt = "mode"
    /\ (proc.pc = "exit" /\ proc.ret # <<>>) =>
          /\ AllAnswered
          /\ proc.exit = <<0>>
          /\ SavedConfig = proc.ret[1]
          /\ DictGet(SavedConfig.v, "continuationMethod") = PyStr("compact") =>
                DictGet(SavedConfig.v, "handoffMode") = PyStr("clipboard")

\* The wizard, started over an existing global configuration, was
\* cancelled at the handoff-mode prompt after "handoff" was chosen: it has
\* ended with 1 and the old configuration is still there.
C23_Witness ==
    /\ proc.pc = "exit"
    /\ proc.exit = <<1>>
    /\ PromptsOf(proc.asked) = <<"update", "configure", "method", "mode">>
    /\ proc.asked[4].sel = <<>>
    /\ disk = <<Member(ConfigPath("global"), OldConfig)>>
    /\ proc.saves = 0

\* The wizard has saved "compact" for the project over an older project
\* configuration, without the handoff-mode prompt.
C23_SavedCompact ==
    /\ proc.pc = "exit"
    /\ proc.exit = <<0>>
    /\ PromptsOf(WizardAsked) = <<"configure", "method", "scope">>
    /\ proc.scope = <<"project">>
    /\ corpus.existing # <<>>
    /\ DictGet(disk, ConfigPath("project")) # OldConfig
    /\ DictGet(SavedConfig.v, "handoffMode") = PyStr("clipboard")

\* Every prompt was answered and save_config raised: the wizard has ended
\* with 1 after one call of save_config, and no file has changed.
C23_SaveRaised ==
    /\ proc.pc = "exit"
    /\ proc.exit = <<1>>
    /\ AllAnswered
    /\ proc.saves = 1
    /\ disk = corpus.existing

\* main's own prompt over an existing configuration was declined: the
\* process has ended with 0 and run_wizard was never called.
C23_UpdateDeclined ==
    /\ proc.pc = "exit"
    /\ proc.exit = <<0>>
    /\ PromptsOf(proc.asked) = <<"update">>
    /\ proc.asked[1].sel = <<1>>

=============================================================================
